---- MODULE Spec2Model ----
(***************************************************************************)
(* Streaming antivirus gateway: the producer's external-processor handler, *)
(* the scan orchestrator and adapter, the Byte Pipe in the shared store,   *)
(* the consumer's worker and task service, the cluster coordinator, the    *)
(* synchronous-blocking producer and the 4:1 worker pool.                  *)
(*                                                                         *)
(* Each subsystem has its own specification over its own variables; the    *)
(* variables of the other subsystems stay at their initial values.         *)
(***************************************************************************)
EXTENDS Integers, Sequences, FiniteSets, TLC

(***************************************************************************)
(* Bounds of the model.                                                    *)
(***************************************************************************)
\* body chunks the proxy sends on one stream
MaxBody == 2

(***************************************************************************)
(* Program constants.                                                      *)
(***************************************************************************)
\* orchestrator.py: "if last_tat > 300.0" (seconds)
BypassThresholdS == 300

\* handler.py: _CACHEABLE_METHODS
CACHEABLE_METHODS == {"GET", "HEAD", "OPTIONS"}

\* methods as they arrive in the :method header
RawMethods == {"GET", "get", "POST"}

\* paths of the :path header
Paths == {"/a"}

\* values found under tat_high_last / tat_normal_last, in milliseconds
\* (0 stands for a missing key)
TatValues == {0, 300000, 301000}

\* stream ids minted by prepare_session on one proxy stream: one for the
\* request headers, one for the response headers
Sessions == {1, 2}

\* TAT keys an earlier run may have left: none, or a congested priority queue
InitialTat == { [p \in {"high", "normal"} |-> 0],
                [p \in {"high", "normal"} |-> IF p = "high" THEN 301000 ELSE 0] }

Prio == {"high", "normal"}
QueueNames == {"scan_priority", "scan_normal"}

VARIABLES
    \* ---- proxy side of one external-processor stream
    stage,            \* where the proxy is in the ext_proc message order
    nBody,            \* body messages sent so far
    requests,         \* kinds of the ProcessingRequests received, in order
    responses,        \* ProcessingResponses yielded, in order
    \* ---- locals of VirusScannerExtProcHandler.Process
    task_id,          \* 0 is None; provider is assigned together with it
    handshake_task,   \* 0 is None, else the session whose handshake it awaits
    current_method,
    current_path,
    is_request_phase,
    is_bypassed,
    \* ---- ScanOrchestrator
    start_times,      \* keys of _start_times
    minted,           \* number of ids prepare_session has minted
    \* ---- asyncio tasks of the producer
    hs,               \* state of each session's await_handshake task
    pushTasks,        \* push_chunk tasks created and not yet applied
    fin,              \* state of each session's _finalize_scan_async task; got is
                      \* the status get_result returned to it
    \* ---- shared store
    queues,           \* scan_priority / scan_normal, oldest first
    data,             \* data list of each Byte Pipe
    verified,         \* verified list of each Byte Pipe
    verified_ttl,     \* TTL of each verified list in seconds, 0 when it has none
    done,             \* done sentinel of each Byte Pipe
    ack,              \* type of key ack:{id}: "absent", "list", "string"
    result,           \* list result:{id}
    tat,              \* tat_high_last / tat_normal_last
    cache,            \* paths with a clean-URL cache entry
    \* ---- worker loop and task service
    wpc,
    wjob,
    wqueue,
    yielded,          \* chunks get_chunks has yielded to the engine
    reply,            \* the engine's reply to the scan in progress
    \* ---- history
    pushed,           \* chunks passed to push_chunk, in call order
    enqueued,         \* sessions whose job was pushed onto a queue
    ackPushed,        \* sessions whose ACK was pushed
    readBegun,        \* sessions whose Byte Pipe the worker started reading
    bypass_reason,    \* why is_bypassed was set
    cacheReads,       \* (method, phase) of every check_cache call
    cacheWrites,      \* (path, method, status) of every store_cache call
    tenant_priority,  \* what get_priority answers for the tenant of the stream
    reported,         \* the records the worker pushed to result:{id}
    finalize_calls,   \* provider.finalize calls made for each stream
    tatRead           \* per session, the TAT key of its priority at dispatch

pipeVars == << stage, nBody, requests, responses, task_id,
               handshake_task, current_method, current_path, is_request_phase,
               is_bypassed, start_times, minted, hs, pushTasks, fin, queues,
               data, verified, done, ack, result, tat, cache, wpc, wjob,
               wqueue, yielded, reply, pushed, enqueued, ackPushed,
               readBegun, bypass_reason, cacheReads, cacheWrites,
               tenant_priority, reported, tatRead, finalize_calls,
               verified_ttl >>

VARIABLES
    \* ---- cluster coordination: keys of the shared store
    target_epoch,     \* clamav:target_epoch, 0 when the key is absent
    update_lock,      \* clamav:update_lock: the holder's pod name, or "none"
    scaling_request,  \* length of the list clamav:scaling_request
    active_nodes,     \* the set clamav:active_nodes
    heartbeats,       \* clamav:heartbeat:{pod}: the epoch in it, -1 when absent
    \* ---- cluster coordination: each pod's ClusterCoordinator
    current_epoch,
    cpc,              \* position in handle_sequential_update
    ctarget,          \* the local target_epoch
    deployment_name   \* whether DEPLOYMENT_NAME is set

coordVars == << target_epoch, update_lock, scaling_request, active_nodes,
                heartbeats, current_epoch, cpc, ctarget, deployment_name >>

VARIABLES
    \* ---- synchronous-blocking producer: locals of Process and the store
    sync_stage,       \* where the proxy stream is
    sync_is_priority,
    sync_task_id,     \* FALSE is None
    sync_start_times, \* whether _start_times holds the task
    sync_nbody,       \* body messages received
    sync_queue,       \* jobs on the scan queues
    sync_data,        \* chunks pushed onto the session's list
    sync_done,        \* the done sentinel
    sync_result,      \* the list result:{task_id}
    \* ---- history
    sync_reported,    \* status the worker published, "none" before
    sync_known,       \* status the producer popped, "none" before
    sync_timed_out,   \* wait_for_result returned None
    sync_body_responses \* the response to each body message, in order

syncVars == << sync_stage, sync_is_priority, sync_task_id, sync_start_times,
               sync_nbody, sync_queue, sync_data, sync_done, sync_result,
               sync_reported, sync_known, sync_timed_out,
               sync_body_responses >>

VARIABLES
    \* ---- the 4:1 worker pool
    pool_queues,      \* the priority and the normal queue
    pool_pc,          \* per worker loop: "pop" or "busy"
    pool_from,        \* per worker loop: the queue its job came from
    \* ---- history
    pool_run,         \* latest pops in a row that left a waiting normal job
    normal_served     \* a normal job was popped since the last normal push

poolVars == << pool_queues, pool_pc, pool_from, pool_run, normal_served >>

VARIABLES
    \* ---- SDS certificate issuer
    sds_cache,        \* SecretDiscoveryHandler._cache, least recently used first
    sds_now,          \* time.monotonic(), in model ticks
    \* ---- history
    sds_log           \* one record per _generate_cert call, in call order

sdsVars == << sds_cache, sds_now, sds_log >>

VARIABLES
    \* ---- one call of ScanOrchestrator.get_result
    res_start_times,  \* the task ids _start_times holds
    res_task_id,      \* the task_id argument
    res_raw,          \* what wait_for_result yields: a payload class, "none"
                      \* for the timeout
    res_status        \* status of the ScanResult returned, "waiting" before

resVars == << res_start_times, res_task_id, res_raw, res_status >>

VARIABLES
    \* ---- VirusScanHandler.run: the worker loops and the coordination loop
    wk_queues,        \* the job lists scan_priority and scan_normal
    wk_kind,          \* per job: what its payload is, "none" before the push
    wk_pc,            \* per worker loop: its position
    wk_job,           \* per worker loop: the job it popped, 0 for none
    shutdown_event,   \* asyncio.Event set by the signal handler
    coordination_pc,  \* position of coordination_loop
    run_pc,           \* position of run()
    \* ---- history
    wk_takers,        \* per job: the worker loops whose pop returned it
    wk_acked,         \* per job: the worker loops that pushed its ACK
    wk_outcome        \* per job: how process_task ended, "none" before

wkVars == << wk_queues, wk_kind, wk_pc, wk_job, shutdown_event,
             coordination_pc, run_pc, wk_takers, wk_acked, wk_outcome >>

vars == << pipeVars, coordVars, syncVars, poolVars, sdsVars, resVars, wkVars >>

(***************************************************************************)
(* Pure helpers.                                                           *)
(***************************************************************************)
\* str.upper() on the :method header
Upper(m) == IF m = "get" THEN "GET" ELSE m

\* Variant of Cacheable: the method test dropped
Cacheable_AnyMethod(m) == TRUE

\* handler.py: "current_method in self._CACHEABLE_METHODS"
Cacheable(m) == m \in CACHEABLE_METHODS

\* ScanResult.is_infected
is_infected(status) == status = "INFECTED"

\* RedisScanAdapter.get_last_tat: the key read for a priority, in ms; a
\* read that raises (readOk = FALSE: a store error, or a provider without
\* "get" such as RedisQueueProvider) is caught and answered 0.0
get_last_tat(is_priority, readOk) ==
    IF ~readOk THEN 0
    ELSE IF is_priority THEN tat["high"] ELSE tat["normal"]

\* start_scan: "if last_tat > 300.0" with last_tat = ms / 1000
CongestionBypass(last_tat_ms) == last_tat_ms > BypassThresholdS * 1000

\* RedisScanAdapter.enqueue_task: the queue chosen for a priority
QueueFor(is_priority) == IF is_priority THEN "scan_priority" ELSE "scan_normal"

\* BRPOP over a list of keys: the first listed non-empty list wins
BrPopFrom(qs, names) ==
    IF Len(names) = 0 THEN "none"
    ELSE LET hit == { i \in 1..Len(names) : Len(qs[names[i]]) > 0 }
         IN IF hit = {} THEN "none"
            ELSE names[CHOOSE i \in hit : \A j \in hit : i <= j]

provider == task_id


(***************************************************************************)
(* Initial state of the pipeline: a fresh proxy stream, an idle worker, a  *)
(* store that earlier streams may have left a cache entry and TAT values   *)
(* in.                                                                     *)
(***************************************************************************)
PipeStart ==
    /\ stage = "start"
    /\ nBody = 0
    /\ requests = << >>
    /\ responses = << >>
    /\ task_id = 0
    /\ handshake_task = 0
    /\ current_method = "GET"
    /\ current_path = "unknown"
    /\ is_request_phase = TRUE
    /\ is_bypassed = FALSE
    /\ start_times = {}
    /\ minted = 0
    /\ hs = [s \in Sessions |-> "none"]
    /\ pushTasks = {}
    /\ fin = [s \in Sessions |-> [pc |-> "none", hsref |-> 0, got |-> "none",
                                   method |-> "GET", path |-> "unknown"]]
    /\ queues = [q \in QueueNames |-> << >>]
    /\ data = [s \in Sessions |-> << >>]
    /\ verified = [s \in Sessions |-> << >>]
    /\ done = [s \in Sessions |-> FALSE]
    /\ ack = [s \in Sessions |-> "absent"]
    /\ result = [s \in Sessions |-> << >>]
    /\ tat \in InitialTat
    /\ cache \in SUBSET Paths
    /\ wpc = "pop"
    /\ wjob = 0
    /\ wqueue = "none"
    /\ yielded = [s \in Sessions |-> << >>]
    /\ reply = "none"
    /\ pushed = [s \in Sessions |-> << >>]
    /\ enqueued = {}
    /\ ackPushed = {}
    /\ readBegun = {}
    /\ bypass_reason = "none"
    /\ cacheReads = {}
    /\ cacheWrites = {}
    /\ tenant_priority \in BOOLEAN
    /\ reported = {}
    /\ tatRead = [s \in Sessions |-> 0]
    /\ finalize_calls = [s \in Sessions |-> 0]
    /\ verified_ttl = [s \in Sessions |-> 0]

(***************************************************************************)
(* VirusScannerExtProcHandler.Process                                      *)
(***************************************************************************)
\* Variant of check_cache: the cache key is never found
check_cache_NeverHit(path) == FALSE

\* IntelligentCacheService.check_cache: the policy never bypasses, so the
\* answer is whether the cache key exists
check_cache(path) == path \in cache

\* the "finally" of Process: cancel a handshake task that is not done
CancelHandshake ==
    IF handshake_task # 0 /\ hs[handshake_task] \in {"created", "blocked"}
    THEN hs' = [hs EXCEPT ![handshake_task] = "cancelled"]
    ELSE UNCHANGED hs

\* Header phase: the cache short-circuit, else prepare_session and
\* dispatch_scan (predictive bypass, then enqueue), else the handshake task.
\* storeOk = FALSE is a store failure while the job is being enqueued: the
\* exception leaves Process through its "finally".
HandleHeaders(isReq, rawm, p, prio, readOk, storeOk) ==
    LET m == IF isReq THEN Upper(rawm) ELSE current_method
        pa == IF isReq THEN p ELSE current_path
        consult == isReq /\ Cacheable(m)
        hit == consult /\ check_cache(pa)
        skip == ~isReq /\ is_bypassed
        sid == minted + 1
        congested == CongestionBypass(get_last_tat(prio, readOk))
    IN  /\ current_method' = m
        /\ current_path' = pa
        /\ is_request_phase' = isReq
        /\ requests' = Append(requests,
                              IF isReq THEN "request_headers" ELSE "response_headers")
        /\ cacheReads' = IF consult
                         THEN cacheReads \cup {[method |-> m, request_phase |-> isReq]}
                         ELSE cacheReads
        /\ IF hit \/ skip
           THEN /\ is_bypassed' = TRUE
                /\ bypass_reason' = IF hit THEN "cache" ELSE bypass_reason
                /\ responses' = Append(responses, "CONTINUE")
                /\ stage' = IF isReq THEN "req" ELSE "resp"
                /\ UNCHANGED << task_id, handshake_task, start_times, minted,
                                hs, queues, enqueued, tatRead >>
           ELSE /\ sid \in Sessions
                /\ minted' = sid
                /\ tatRead' = [tatRead EXCEPT
                                  ![sid] = tat[IF prio THEN "high" ELSE "normal"]]
                /\ start_times' = start_times \cup {sid}
                /\ task_id' = sid
                /\ IF congested
                   THEN /\ is_bypassed' = TRUE
                        /\ bypass_reason' = "congestion"
                        /\ responses' = Append(responses, "CONTINUE")
                        /\ stage' = IF isReq THEN "req" ELSE "resp"
                        /\ UNCHANGED << handshake_task, hs, queues, enqueued >>
                   ELSE IF storeOk
                   THEN /\ queues' = [queues EXCEPT ![QueueFor(prio)] = Append(@, sid)]
                        /\ enqueued' = enqueued \cup {sid}
                        /\ hs' = [hs EXCEPT ![sid] = "created"]
                        /\ handshake_task' = sid
                        /\ responses' = Append(responses, "CONTINUE")
                        /\ stage' = IF isReq THEN "req" ELSE "resp"
                        /\ UNCHANGED << is_bypassed, bypass_reason >>
                   ELSE /\ CancelHandshake
                        /\ stage' = "failed"
                        /\ UNCHANGED << handshake_task, queues, enqueued,
                                        responses, is_bypassed, bypass_reason >>

ProcessRequestHeaders ==
    /\ stage = "start"
    /\ \E rawm \in RawMethods, p \in Paths, readOk \in BOOLEAN,
          storeOk \in BOOLEAN :
           HandleHeaders(TRUE, rawm, p, tenant_priority, readOk, storeOk)
    /\ UNCHANGED << nBody, pushTasks, fin, data, verified, done, ack,
                    result, tat, cache, wpc, wjob, wqueue, yielded, reply,
                    pushed, ackPushed, readBegun, cacheWrites,
                    tenant_priority, reported, finalize_calls, verified_ttl, coordVars, syncVars, poolVars, sdsVars,
                    resVars, wkVars >>

ProcessResponseHeaders ==
    /\ stage = "reqdone"
    /\ \E readOk \in BOOLEAN, storeOk \in BOOLEAN :
           HandleHeaders(FALSE, current_method, current_path, tenant_priority,
                         readOk, storeOk)
    /\ UNCHANGED << nBody, pushTasks, fin, data, verified, done, ack,
                    result, tat, cache, wpc, wjob, wqueue, yielded, reply,
                    pushed, ackPushed, readBegun, cacheWrites,
                    tenant_priority, reported, finalize_calls, verified_ttl, coordVars, syncVars, poolVars, sdsVars,
                    resVars, wkVars >>

\* Body phase: CONTINUE at once, then the push_chunk task and, on
\* end_of_stream, the _finalize_scan_async task.
HandleBody(eos) ==
    LET chunk == nBody + 1
        forward == ~(is_bypassed \/ provider = 0)
    IN  /\ requests' = Append(requests, "body")
        /\ responses' = Append(responses, "CONTINUE")
        /\ nBody' = nBody + 1
        /\ stage' = IF eos THEN "reqdone" ELSE stage
        /\ IF forward
           THEN /\ pushTasks' = pushTasks \cup {[sid |-> task_id, chunk |-> chunk]}
                /\ pushed' = [pushed EXCEPT ![task_id] = Append(@, chunk)]
                /\ IF eos
                   THEN /\ fin' = [fin EXCEPT ![task_id] =
                                      [pc |-> "finalize_push", hsref |-> handshake_task,
                                       got |-> "none", method |-> current_method,
                                       path |-> current_path]]
                        /\ handshake_task' = 0
                   ELSE UNCHANGED << fin, handshake_task >>
           ELSE UNCHANGED << pushTasks, pushed, fin, handshake_task >>

ProcessBody ==
    /\ stage = "req"
    /\ nBody < MaxBody
    /\ \E eos \in BOOLEAN : HandleBody(eos)
    /\ UNCHANGED << task_id, current_method, current_path,
                    is_request_phase, is_bypassed, start_times, minted, hs,
                    queues, data, verified, done, ack, result, tat, cache, wpc,
                    wjob, wqueue, yielded, reply, enqueued, ackPushed,
                    readBegun, bypass_reason, cacheReads, cacheWrites,
                    tenant_priority, reported, tatRead, finalize_calls, verified_ttl, coordVars, syncVars,
                    poolVars, sdsVars,
                    resVars, wkVars >>

\* Any other message: an empty ProcessingResponse.  The proxy sends request
\* trailers in place of end_of_stream on the last body message.
ProcessOther ==
    /\ stage = "req"
    /\ stage' = "reqdone"
    /\ requests' = Append(requests, "other")
    /\ responses' = Append(responses, "EMPTY")
    /\ UNCHANGED << nBody, task_id, handshake_task, current_method,
                    current_path, is_request_phase, is_bypassed, start_times,
                    minted, hs, pushTasks, fin, queues, data, verified, done,
                    ack, result, tat, cache, wpc, wjob, wqueue, yielded,
                    reply, pushed, enqueued, ackPushed, readBegun,
                    bypass_reason, cacheReads, cacheWrites, tenant_priority,
                    reported, tatRead, finalize_calls, verified_ttl, coordVars, syncVars, poolVars, sdsVars,
                    resVars, wkVars >>

\* The proxy ends the stream: Process leaves through its "finally"
ProxyDisconnect ==
    /\ stage \in {"req", "reqdone", "resp"}
    /\ stage' = "closed"
    /\ CancelHandshake
    /\ UNCHANGED << nBody, requests, responses, task_id,
                    handshake_task, current_method, current_path,
                    is_request_phase, is_bypassed, start_times, minted,
                    pushTasks, fin, queues, data, verified, done, ack, result,
                    tat, cache, wpc, wjob, wqueue, yielded, reply, pushed,
                    enqueued, ackPushed, readBegun, bypass_reason, cacheReads,
                    cacheWrites, tenant_priority, reported, tatRead,
                    finalize_calls, verified_ttl, coordVars, syncVars, poolVars, sdsVars,
                    resVars, wkVars >>

(***************************************************************************)
(* Producer tasks: await_handshake, push_chunk, _finalize_scan_async       *)
(***************************************************************************)
\* wait_for_ack issues its blocking pop on ack:{id}: an element is popped,
\* a key of the wrong type raises (caught: False), an absent key blocks
HandshakeIssue(s) ==
    /\ hs[s] = "created"
    /\ hs' = [hs EXCEPT ![s] = CASE ack[s] = "list" -> "accepted"
                                 [] ack[s] = "string" -> "failed"
                                 [] OTHER -> "blocked"]
    /\ ack' = [ack EXCEPT ![s] = IF @ = "list" THEN "absent" ELSE @]
    /\ UNCHANGED << stage, nBody, requests, responses, task_id,
                    handshake_task, current_method, current_path,
                    is_request_phase, is_bypassed, start_times, minted,
                    pushTasks, fin, queues, data, verified, done, result, tat,
                    cache, wpc, wjob, wqueue, yielded, reply, pushed,
                    enqueued, ackPushed, readBegun, bypass_reason, cacheReads,
                    cacheWrites, tenant_priority, reported, tatRead,
                    finalize_calls, verified_ttl, coordVars, syncVars, poolVars, sdsVars,
                    resVars, wkVars >>

\* the blocking pop on ack:{id} times out after 300 s: wait_for_ack and
\* await_handshake return False
HandshakeTimeout(s) ==
    /\ hs[s] = "blocked"
    /\ hs' = [hs EXCEPT ![s] = "timed_out"]
    /\ UNCHANGED << stage, nBody, requests, responses, task_id,
                    handshake_task, current_method, current_path,
                    is_request_phase, is_bypassed, start_times, minted,
                    pushTasks, fin, queues, data, verified, done, ack, result,
                    tat, cache, wpc, wjob, wqueue, yielded, reply, pushed,
                    enqueued, ackPushed, readBegun, bypass_reason, cacheReads,
                    cacheWrites, tenant_priority, reported, tatRead,
                    finalize_calls, verified_ttl, coordVars, syncVars, poolVars, sdsVars,
                    resVars, wkVars >>

\* RedisStreamProvider.push_chunk: the RPUSH of one pending task lands
push_chunk(t) ==
    /\ t \in pushTasks
    /\ pushTasks' = pushTasks \ {t}
    /\ data' = [data EXCEPT ![t.sid] = Append(@, t.chunk)]
    /\ UNCHANGED << stage, nBody, requests, responses, task_id,
                    handshake_task, current_method, current_path,
                    is_request_phase, is_bypassed, start_times, minted, hs, fin,
                    queues, verified, done, ack, result, tat, cache, wpc, wjob,
                    wqueue, yielded, reply, pushed, enqueued, ackPushed,
                    readBegun, bypass_reason, cacheReads, cacheWrites,
                    tenant_priority, reported, tatRead, finalize_calls, verified_ttl, coordVars, syncVars,
                    poolVars, sdsVars,
                    resVars, wkVars >>

\* _finalize_scan_async, first step: finalize_push sets the done sentinel
\* (finalize_ingest then records a metric)
finalize_push(s) ==
    /\ fin[s].pc = "finalize_push"
    /\ done' = [done EXCEPT ![s] = TRUE]
    /\ fin' = [fin EXCEPT ![s].pc = IF fin[s].hsref # 0 THEN "await_handshake"
                                    ELSE "get_result"]
    /\ UNCHANGED << stage, nBody, requests, responses, task_id,
                    handshake_task, current_method, current_path,
                    is_request_phase, is_bypassed, start_times, minted, hs,
                    pushTasks, queues, data, verified, ack, result, tat, cache,
                    wpc, wjob, wqueue, yielded, reply, pushed, enqueued,
                    ackPushed, readBegun, bypass_reason, cacheReads,
                    cacheWrites, tenant_priority, reported, tatRead,
                    finalize_calls, verified_ttl, coordVars, syncVars, poolVars, sdsVars,
                    resVars, wkVars >>

\* The proxy opens the next stream after one has ended whose scan came
\* back INFECTED and whose tasks have run to their end: Process starts with
\* fresh locals, while the orchestrator and the store live on
NewStreamAfterInfected ==
    /\ stage \in {"closed", "failed"}
    /\ pushTasks = {}
    /\ \A s \in Sessions :
           fin[s].pc \in {"none", "returned", "bypassed", "cancelled"}
    /\ \E s \in Sessions : fin[s].got = "INFECTED"
    /\ stage' = "start"
    /\ nBody' = 0
    /\ requests' = << >>
    /\ responses' = << >>
    /\ task_id' = 0
    /\ handshake_task' = 0
    /\ current_path' = "unknown"
    /\ current_method' = "GET"
    /\ is_request_phase' = TRUE
    /\ is_bypassed' = FALSE
    /\ bypass_reason' = "none"
    /\ UNCHANGED << start_times, minted, hs, pushTasks, fin, queues, data,
                    verified, done, ack, result, tat, cache, wpc, wjob,
                    wqueue, yielded, reply, pushed, enqueued, ackPushed,
                    readBegun, cacheReads, cacheWrites, tenant_priority,
                    reported, tatRead, finalize_calls, verified_ttl,
                    coordVars, syncVars, poolVars, sdsVars,
                    resVars, wkVars >>

\* Variant of FinalizeAwaitHandshake: the outcome of the handshake is not
\* tested
FinalizeAwaitHandshake_IgnoresOutcome(s) ==
    /\ fin[s].pc = "await_handshake"
    /\ hs[fin[s].hsref] \in {"accepted", "failed", "timed_out", "cancelled"}
    /\ fin' = [fin EXCEPT ![s].pc =
                  CASE hs[fin[s].hsref] = "cancelled" -> "cancelled"
                    [] OTHER -> "get_result"]
    /\ UNCHANGED << stage, nBody, requests, responses, task_id,
                    handshake_task, current_method, current_path,
                    is_request_phase, is_bypassed, start_times, minted, hs,
                    pushTasks, queues, data, verified, done, ack, result, tat,
                    cache, wpc, wjob, wqueue, yielded, reply, pushed,
                    enqueued, ackPushed, readBegun, bypass_reason, cacheReads,
                    cacheWrites, tenant_priority, reported, tatRead,
                    finalize_calls, verified_ttl, coordVars, syncVars, poolVars, sdsVars,
                    resVars, wkVars >>

\* _finalize_scan_async, "is_accepted = await handshake_task"
FinalizeAwaitHandshake(s) ==
    /\ fin[s].pc = "await_handshake"
    /\ hs[fin[s].hsref] \in {"accepted", "failed", "timed_out", "cancelled"}
    /\ fin' = [fin EXCEPT ![s].pc =
                  CASE hs[fin[s].hsref] = "accepted" -> "get_result"
                    [] hs[fin[s].hsref] \in {"failed", "timed_out"} -> "bypassed"
                    [] OTHER -> "cancelled"]
    /\ UNCHANGED << stage, nBody, requests, responses, task_id,
                    handshake_task, current_method, current_path,
                    is_request_phase, is_bypassed, start_times, minted, hs,
                    pushTasks, queues, data, verified, done, ack, result, tat,
                    cache, wpc, wjob, wqueue, yielded, reply, pushed,
                    enqueued, ackPushed, readBegun, bypass_reason, cacheReads,
                    cacheWrites, tenant_priority, reported, tatRead,
                    finalize_calls, verified_ttl, coordVars, syncVars, poolVars, sdsVars,
                    resVars, wkVars >>

\* models.py: the member names of ScanStatus
ScanStatusMembers == {"PENDING", "CLEAN", "INFECTED", "ERROR"}

\* what wait_for_result can hand to get_result: "none" is the timeout of the
\* blocking pop, "raises" a store error, "not_json" bytes json.loads
\* rejects, "not_object" JSON that is no object, "no_status" an object
\* without the key, "not_hashable" an object whose status is a list; every
\* other value is an object with that string as its status
ResultPayloads == {"none", "raises", "not_json", "not_object", "no_status",
                   "not_hashable", "CLEAN", "INFECTED", "ERROR", "PENDING",
                   "clean", "UNKNOWN"}

\* ScanOrchestrator.get_result: the status of the ScanResult it returns,
\* given whether _start_times held the task (held) and the payload
get_result_status(held, raw) ==
    IF raw = "raises" THEN "ERROR"
    ELSE IF ~held THEN "ERROR"
    ELSE IF raw = "none" THEN "ERROR"
    ELSE IF raw \in {"not_json", "not_object", "not_hashable"} THEN "ERROR"
    ELSE IF raw = "no_status" THEN "ERROR"
    ELSE IF raw \in ScanStatusMembers THEN raw
    ELSE "ERROR"

\* ScanOrchestrator.get_result on the popped payload (raw = "none" is the
\* timeout of the blocking pop): the tagged status
get_result(s, raw) == get_result_status(s \in start_times, raw)

\* the tail of _finalize_scan_async: infected results return, every other
\* result is logged CLEAN and stored when the method is cacheable
StoresCache(status, method) == ~is_infected(status) /\ Cacheable(method)

\* IntelligentCacheService.store_cache calls provider.set without awaiting
\* it: a provider whose set acts when called writes the key (lands), the
\* coroutine of RedisStateStoreProvider.set is dropped and writes nothing
store_cache(path, lands) == IF lands THEN cache \cup {path} ELSE cache

\* _finalize_scan_async from "result = await get_result(task_id)" on
FinalizeGetResult(s, timedOut, lands) ==
    /\ fin[s].pc = "get_result"
    /\ IF timedOut THEN result[s] = << >> ELSE result[s] # << >>
    /\ LET raw == IF timedOut THEN "none" ELSE Head(result[s])
           status == get_result(s, raw)
       IN  /\ result' = [result EXCEPT ![s] = IF timedOut THEN @ ELSE Tail(@)]
           /\ start_times' = start_times \ {s}
           /\ fin' = [fin EXCEPT ![s].pc = "returned", ![s].got = status]
           /\ IF StoresCache(status, fin[s].method)
              THEN /\ cache' = store_cache(fin[s].path, lands)
                   /\ cacheWrites' = cacheWrites \cup
                          {[path |-> fin[s].path, method |-> fin[s].method,
                            status |-> status, timeout |-> timedOut, sid |-> s,
                            lands |-> lands]}
              ELSE UNCHANGED << cache, cacheWrites >>
    /\ UNCHANGED << stage, nBody, requests, responses, task_id,
                    handshake_task, current_method, current_path,
                    is_request_phase, is_bypassed, minted, hs, pushTasks,
                    queues, data, verified, done, ack, tat, wpc, wjob, wqueue,
                    yielded, reply, pushed, enqueued, ackPushed,
                    readBegun, bypass_reason, cacheReads, tenant_priority,
                    reported, tatRead, finalize_calls, verified_ttl, coordVars, syncVars, poolVars, sdsVars,
                    resVars, wkVars >>

(***************************************************************************)
(* Consumer: VirusScanHandler._worker_loop, ScannerTaskService,            *)
(* ScannerEngineClient.scan over RedisStreamProvider.get_chunks            *)
(***************************************************************************)
\* the queues a priority-first worker lists in its blocking pop
WorkerQueues == << "scan_priority", "scan_normal" >>

\* ScannerTaskService: "high" if "priority" in queue_name else "normal"
PriorityOf(queue_name) == IF queue_name = "scan_priority" THEN "high" ELSE "normal"

\* _worker_loop: provider.pop(queues, timeout=2) returned a job
WorkerPop ==
    /\ wpc = "pop"
    /\ BrPopFrom(queues, WorkerQueues) # "none"
    /\ LET q == BrPopFrom(queues, WorkerQueues)
       IN  /\ wjob' = Head(queues[q])
           /\ wqueue' = q
           /\ queues' = [queues EXCEPT ![q] = Tail(@)]
    /\ wpc' = "send_ack"
    /\ UNCHANGED << stage, nBody, requests, responses, task_id,
                    handshake_task, current_method, current_path,
                    is_request_phase, is_bypassed, start_times, minted, hs,
                    pushTasks, fin, data, verified, done, ack, result, tat,
                    cache, yielded, reply, pushed, enqueued, ackPushed,
                    readBegun, bypass_reason, cacheReads, cacheWrites,
                    tenant_priority, reported, tatRead, finalize_calls, verified_ttl, coordVars, syncVars,
                    poolVars, sdsVars,
                    resVars, wkVars >>

\* Variant of WorkerSendAckPush: the push onto ack:{id} is left out
WorkerSendAckPush_Omitted ==
    /\ wpc = "send_ack"
    /\ wpc' = "send_ack_set"
    /\ UNCHANGED << stage, nBody, requests, responses, task_id,
                    handshake_task, current_method, current_path,
                    is_request_phase, is_bypassed, start_times, minted, hs,
                    pushTasks, fin, queues, data, verified, done, ack, result,
                    tat, cache, wjob, wqueue, yielded, reply, pushed,
                    enqueued, ackPushed, readBegun, bypass_reason, cacheReads,
                    cacheWrites, tenant_priority, reported, tatRead,
                    finalize_calls, verified_ttl, coordVars, syncVars, poolVars, sdsVars,
                    resVars, wkVars >>

\* _send_ack, first call: push onto ack:{id}; a producer already blocked
\* in its pop is served by the push itself
WorkerSendAckPush ==
    /\ wpc = "send_ack"
    /\ IF hs[wjob] = "blocked"
       THEN /\ hs' = [hs EXCEPT ![wjob] = "accepted"]
            /\ UNCHANGED ack
       ELSE /\ ack' = [ack EXCEPT ![wjob] = "list"]
            /\ UNCHANGED hs
    /\ ackPushed' = ackPushed \cup {wjob}
    /\ wpc' = "send_ack_set"
    /\ UNCHANGED << stage, nBody, requests, responses, task_id,
                    handshake_task, current_method, current_path,
                    is_request_phase, is_bypassed, start_times, minted,
                    pushTasks, fin, queues, data, verified, done, result, tat,
                    cache, wjob, wqueue, yielded, reply, pushed,
                    enqueued, readBegun, bypass_reason, cacheReads,
                    cacheWrites, tenant_priority, reported, tatRead,
                    finalize_calls, verified_ttl, coordVars, syncVars, poolVars, sdsVars,
                    resVars, wkVars >>

\* _send_ack, second call: SET ack:{id} "1" EX 300 replaces the key
WorkerSendAckSet ==
    /\ wpc = "send_ack_set"
    /\ ack' = [ack EXCEPT ![wjob] = "string"]
    /\ wpc' = "get_chunks"
    /\ UNCHANGED << stage, nBody, requests, responses, task_id,
                    handshake_task, current_method, current_path,
                    is_request_phase, is_bypassed, start_times, minted, hs,
                    pushTasks, fin, queues, data, verified, done, result, tat,
                    cache, wjob, wqueue, yielded, reply, pushed,
                    enqueued, ackPushed, readBegun, bypass_reason, cacheReads,
                    cacheWrites, tenant_priority, reported, tatRead,
                    finalize_calls, verified_ttl, coordVars, syncVars, poolVars, sdsVars,
                    resVars, wkVars >>

\* get_chunks, first statement: delete the verified list
WorkerGetChunksBegin ==
    /\ wpc = "get_chunks"
    /\ verified' = [verified EXCEPT ![wjob] = << >>]
    /\ verified_ttl' = [verified_ttl EXCEPT ![wjob] = 0]
    /\ readBegun' = readBegun \cup {wjob}
    /\ wpc' = "blmove"
    /\ UNCHANGED << stage, nBody, requests, responses, task_id,
                    handshake_task, current_method, current_path,
                    is_request_phase, is_bypassed, start_times, minted, hs,
                    pushTasks, fin, queues, data, done, ack, result, tat, cache,
                    wjob, wqueue, yielded, reply, pushed, enqueued,
                    ackPushed, bypass_reason, cacheReads, cacheWrites,
                    tenant_priority, reported, tatRead, finalize_calls, verified_ttl, coordVars, syncVars,
                    poolVars, sdsVars,
                    resVars, wkVars >>

\* Variant of WorkerBlmove: the chunk is taken from the right end of the
\* data list
WorkerBlmove_FromRight ==
    /\ wpc = "blmove"
    /\ data[wjob] # << >>
    /\ data' = [data EXCEPT ![wjob] = SubSeq(@, 1, Len(@) - 1)]
    /\ verified' = [verified EXCEPT ![wjob] = Append(@, data[wjob][Len(data[wjob])])]
    /\ yielded' = [yielded EXCEPT ![wjob] = Append(@, data[wjob][Len(data[wjob])])]
    /\ UNCHANGED << stage, nBody, requests, responses, task_id,
                    handshake_task, current_method, current_path,
                    is_request_phase, is_bypassed, start_times, minted, hs,
                    pushTasks, fin, queues, done, ack, result, tat, cache, wpc,
                    wjob, wqueue, reply, pushed, enqueued, ackPushed,
                    readBegun, bypass_reason, cacheReads, cacheWrites,
                    tenant_priority, reported, tatRead, finalize_calls, verified_ttl, coordVars, syncVars,
                    poolVars, sdsVars,
                    resVars, wkVars >>

\* get_chunks: BLMOVE data -> verified returned a chunk, which is yielded
\* and written to the engine
WorkerBlmove ==
    /\ wpc = "blmove"
    /\ data[wjob] # << >>
    /\ data' = [data EXCEPT ![wjob] = Tail(@)]
    /\ verified' = [verified EXCEPT ![wjob] = Append(@, Head(data[wjob]))]
    /\ yielded' = [yielded EXCEPT ![wjob] = Append(@, Head(data[wjob]))]
    /\ UNCHANGED << stage, nBody, requests, responses, task_id,
                    handshake_task, current_method, current_path,
                    is_request_phase, is_bypassed, start_times, minted, hs,
                    pushTasks, fin, queues, done, ack, result, tat, cache, wpc,
                    wjob, wqueue, reply, pushed, enqueued, ackPushed,
                    readBegun, bypass_reason, cacheReads, cacheWrites,
                    tenant_priority, reported, tatRead, finalize_calls, verified_ttl, coordVars, syncVars,
                    poolVars, sdsVars,
                    resVars, wkVars >>

\* get_chunks: BLMOVE found the data list empty for 5 s and returned nil
WorkerBlmoveTimeout ==
    /\ wpc = "blmove"
    /\ data[wjob] = << >>
    /\ wpc' = "check_done"
    /\ UNCHANGED << stage, nBody, requests, responses, task_id,
                    handshake_task, current_method, current_path,
                    is_request_phase, is_bypassed, start_times, minted, hs,
                    pushTasks, fin, queues, data, verified, done, ack, result,
                    tat, cache, wjob, wqueue, yielded, reply, pushed,
                    enqueued, ackPushed, readBegun, bypass_reason, cacheReads,
                    cacheWrites, tenant_priority, reported, tatRead,
                    finalize_calls, verified_ttl, coordVars, syncVars, poolVars, sdsVars,
                    resVars, wkVars >>

\* get_chunks: "if await self.redis.get(self.done_key): break" else continue
WorkerCheckDone ==
    /\ wpc = "check_done"
    /\ wpc' = IF done[wjob] THEN "reply" ELSE "blmove"
    /\ UNCHANGED << stage, nBody, requests, responses, task_id,
                    handshake_task, current_method, current_path,
                    is_request_phase, is_bypassed, start_times, minted, hs,
                    pushTasks, fin, queues, data, verified, done, ack, result,
                    tat, cache, wjob, wqueue, yielded, reply, pushed,
                    enqueued, ackPushed, readBegun, bypass_reason, cacheReads,
                    cacheWrites, tenant_priority, reported, tatRead,
                    finalize_calls, verified_ttl, coordVars, syncVars, poolVars, sdsVars,
                    resVars, wkVars >>

\* replies of the engine to INSTREAM; "failed" is a socket error before a
\* complete reply
EngineReplies == {"OK", "FOUND", "failed"}

\* scan: "scan_success = True" is reached only after the reply was read
scan_success == reply \in {"OK", "FOUND"}

\* scan: '"FOUND" in response if scan_success else False'
is_virus == scan_success /\ reply = "FOUND"

\* redis_stream.py: "await self.redis.expire(self.verified_key, 3600)"
VerifiedTtlS == 3600

\* Variant of ProviderFinalize: the verified list is kept in every case
ProviderFinalize_KeepsVerified(s, success, virus) ==
    /\ verified' = verified
    /\ verified_ttl' = [verified_ttl EXCEPT
                           ![s] = IF verified[s] # << >> THEN VerifiedTtlS ELSE @]
    /\ done' = [done EXCEPT ![s] = FALSE]
    /\ finalize_calls' = [finalize_calls EXCEPT ![s] = @ + 1]

\* RedisStreamProvider.finalize(success, virus) on session s: DEL or EXPIRE
\* of the verified list (EXPIRE does nothing to a list that does not
\* exist), then DEL of the done key
ProviderFinalize(s, success, virus) ==
    /\ verified' = [verified EXCEPT ![s] = IF ~success \/ virus THEN << >> ELSE @]
    /\ verified_ttl' = [verified_ttl EXCEPT
                           ![s] = IF ~success \/ virus THEN 0
                                  ELSE IF verified[s] # << >> THEN VerifiedTtlS
                                  ELSE @]
    /\ done' = [done EXCEPT ![s] = FALSE]
    /\ finalize_calls' = [finalize_calls EXCEPT ![s] = @ + 1]

\* scan: asyncio.open_connection raises, or the zINSTREAM command cannot be
\* written: both stand before the inner "try", so the exception leaves scan
\* without provider.finalize; _process_stream_task catches it
WorkerConnectFails ==
    /\ wpc = "get_chunks"
    /\ reply' = "failed"
    /\ wpc' = "report"
    /\ UNCHANGED << stage, nBody, requests, responses, task_id,
                    handshake_task, current_method, current_path,
                    is_request_phase, is_bypassed, start_times, minted, hs,
                    pushTasks, fin, queues, data, verified, done, ack, result,
                    tat, cache, wjob, wqueue, yielded, pushed, enqueued,
                    ackPushed, readBegun, bypass_reason, cacheReads,
                    cacheWrites, tenant_priority, reported, tatRead,
                    finalize_calls, verified_ttl, coordVars, syncVars,
                    poolVars, sdsVars,
                    resVars, wkVars >>

\* scan: the zero-length frame is sent and the reply read, or the engine
\* socket fails while streaming or replying; the "finally" calls
\* provider.finalize
WorkerScanEnd(r) ==
    /\ IF r = "failed" THEN wpc \in {"blmove", "check_done", "reply"}
       ELSE wpc = "reply"
    /\ reply' = r
    /\ ProviderFinalize(wjob, r # "failed", r = "FOUND")
    /\ wpc' = "report"
    /\ UNCHANGED << stage, nBody, requests, responses, task_id,
                    handshake_task, current_method, current_path,
                    is_request_phase, is_bypassed, start_times, minted, hs,
                    pushTasks, fin, queues, data, ack, result, tat, cache, wjob,
                    wqueue, yielded, pushed, enqueued, ackPushed, readBegun,
                    bypass_reason, cacheReads, cacheWrites, tenant_priority,
                    reported, tatRead, coordVars, syncVars, poolVars, sdsVars,
                    resVars, wkVars >>

\* the status of the record _process_stream_task publishes
ResultStatus == IF ~scan_success THEN "ERROR"
                ELSE IF is_virus THEN "INFECTED" ELSE "CLEAN"

\* Variant of WorkerReport: the error path returns without a record
WorkerReport_ErrorNotPublished(unpacked) ==
    /\ wpc = "report"
    /\ LET status == IF unpacked THEN ResultStatus ELSE "ERROR"
       IN  IF status = "ERROR" THEN UNCHANGED << result, reported >>
           ELSE /\ result' = [result EXCEPT ![wjob] = Append(@, status)]
                /\ reported' = reported \cup
                       {[sid |-> wjob, reply |-> reply, status |-> status]}
    /\ IF scan_success /\ unpacked
       THEN wpc' = "record_tat" /\ UNCHANGED << wjob, wqueue >>
       ELSE wpc' = "pop" /\ wjob' = 0 /\ wqueue' = "none"
    /\ UNCHANGED << stage, nBody, requests, responses, task_id,
                    handshake_task, current_method, current_path,
                    is_request_phase, is_bypassed, start_times, minted, hs,
                    pushTasks, fin, queues, data, verified, done, ack, tat,
                    cache, yielded, reply, pushed, enqueued, ackPushed,
                    readBegun, bypass_reason, cacheReads, cacheWrites,
                    tenant_priority, tatRead, finalize_calls, verified_ttl, coordVars, syncVars, poolVars, sdsVars,
                    resVars, wkVars >>

\* "is_virus, virus_name, bytes_scanned = await self.engine.scan(provider)",
\* then _report_result pushes the record onto result:{id}.  unpacked tells
\* whether the value the injected engine returned has the three items the
\* assignment takes: ScannerEngineClient.scan returns two, and the
\* ValueError is caught by the "except Exception" that reports ERROR and
\* returns.
WorkerReport(unpacked) ==
    /\ wpc = "report"
    /\ LET status == IF unpacked THEN ResultStatus ELSE "ERROR"
       IN  /\ result' = [result EXCEPT ![wjob] = Append(@, status)]
           /\ reported' = reported \cup
                  {[sid |-> wjob, reply |-> reply, status |-> status]}
    /\ IF scan_success /\ unpacked
       THEN wpc' = "record_tat" /\ UNCHANGED << wjob, wqueue >>
       ELSE wpc' = "pop" /\ wjob' = 0 /\ wqueue' = "none"
    /\ UNCHANGED << stage, nBody, requests, responses, task_id,
                    handshake_task, current_method, current_path,
                    is_request_phase, is_bypassed, start_times, minted, hs,
                    pushTasks, fin, queues, data, verified, done, ack, tat,
                    cache, yielded, reply, pushed, enqueued, ackPushed,
                    readBegun, bypass_reason, cacheReads, cacheWrites,
                    tenant_priority, tatRead, finalize_calls, verified_ttl, coordVars, syncVars, poolVars, sdsVars,
                    resVars, wkVars >>

\* store.set(f"tat_{priority}_last", str(total_tat * 1000))
WorkerRecordTat ==
    /\ wpc = "record_tat"
    /\ \E t \in TatValues \ {0} :
           tat' = [tat EXCEPT ![PriorityOf(wqueue)] = t]
    /\ wpc' = "pop"
    /\ wjob' = 0
    /\ wqueue' = "none"
    /\ UNCHANGED << stage, nBody, requests, responses, task_id,
                    handshake_task, current_method, current_path,
                    is_request_phase, is_bypassed, start_times, minted, hs,
                    pushTasks, fin, queues, data, verified, done, ack, result,
                    cache, yielded, reply, pushed, enqueued, ackPushed,
                    readBegun, bypass_reason, cacheReads, cacheWrites,
                    tenant_priority, reported, tatRead, finalize_calls, verified_ttl, coordVars, syncVars,
                    poolVars, sdsVars,
                    resVars, wkVars >>

(***************************************************************************)
(* The pipeline: one proxy stream, the producer's tasks, one worker.       *)
(***************************************************************************)
PipeNext ==
    \/ ProcessRequestHeaders
    \/ ProcessResponseHeaders
    \/ ProcessBody
    \/ ProcessOther
    \/ ProxyDisconnect
    \/ \E s \in Sessions : HandshakeIssue(s)
    \/ \E s \in Sessions : HandshakeTimeout(s)
    \/ \E t \in pushTasks : push_chunk(t)
    \/ \E s \in Sessions : finalize_push(s)
    \/ \E s \in Sessions : FinalizeAwaitHandshake(s)
    \/ \E s \in Sessions, timedOut \in BOOLEAN, lands \in BOOLEAN :
           FinalizeGetResult(s, timedOut, lands)
    \/ WorkerPop
    \/ WorkerSendAckPush
    \/ WorkerSendAckSet
    \/ WorkerGetChunksBegin
    \/ WorkerConnectFails
    \/ WorkerBlmove
    \/ WorkerBlmoveTimeout
    \/ WorkerCheckDone
    \/ \E r \in EngineReplies : WorkerScanEnd(r)
    \/ \E unpacked \in BOOLEAN : WorkerReport(unpacked)
    \/ WorkerRecordTat

(***************************************************************************)
(* Cluster coordination: ClusterCoordinator.heartbeat and                  *)
(* handle_sequential_update on each pod, set_target_epoch, and the expiry  *)
(* of the keys the pods write with a TTL.                                  *)
(***************************************************************************)
\* pods of the consumer deployment
Nodes == {"pod-a", "pod-b"}

\* epochs set_target_epoch publishes
MaxEpoch == 2

\* nothing published, no pod registered, every coordinator between two ticks
CoordIdle ==
    /\ target_epoch = 0
    /\ update_lock = "none"
    /\ scaling_request = 0
    /\ active_nodes = {}
    /\ heartbeats = [n \in Nodes |-> -1]
    /\ current_epoch = [n \in Nodes |-> 0]
    /\ cpc = [n \in Nodes |-> "idle"]
    /\ ctarget = [n \in Nodes |-> 0]
    /\ deployment_name = FALSE

CoordStart ==
    /\ target_epoch = 0
    /\ update_lock = "none"
    /\ scaling_request = 0
    /\ active_nodes = {}
    /\ heartbeats = [n \in Nodes |-> -1]
    /\ current_epoch = [n \in Nodes |-> 0]
    /\ cpc = [n \in Nodes |-> "idle"]
    /\ ctarget = [n \in Nodes |-> 0]
    /\ deployment_name \in BOOLEAN

\* values of the environment variable TARGET_EPOCH; -1 is "not set"
TargetEpochEnv == {-1} \cup (0..MaxEpoch)

\* set_target_epoch: int(TARGET_EPOCH) when it is set, else the stored
\* epoch plus one
set_target_epoch(env) ==
    /\ LET new_epoch == IF env # -1 THEN env ELSE target_epoch + 1
       IN  /\ new_epoch <= MaxEpoch
           /\ target_epoch' = new_epoch
    /\ UNCHANGED << update_lock, scaling_request, active_nodes, heartbeats,
                    current_epoch, cpc, ctarget, deployment_name, pipeVars,
                    syncVars, poolVars, sdsVars,
                    resVars, wkVars >>

\* heartbeat: SET clamav:heartbeat:{pod} "{now}|{epoch}" EX 60, then SADD
heartbeat(n) ==
    /\ cpc[n] = "idle"
    /\ heartbeats' = [heartbeats EXCEPT ![n] = current_epoch[n]]
    /\ active_nodes' = active_nodes \cup {n}
    /\ UNCHANGED << target_epoch, update_lock, scaling_request, current_epoch,
                    cpc, ctarget, deployment_name, pipeVars, syncVars,
                    poolVars, sdsVars,
                    resVars, wkVars >>

\* the heartbeat key outlives its 60 s
HeartbeatExpire(n) ==
    /\ heartbeats[n] # -1
    /\ heartbeats' = [heartbeats EXCEPT ![n] = -1]
    /\ UNCHANGED << target_epoch, update_lock, scaling_request, active_nodes,
                    current_epoch, cpc, ctarget, deployment_name, pipeVars,
                    syncVars, poolVars, sdsVars,
                    resVars, wkVars >>

\* Variant of ReadTarget: the test "target_epoch <= self.current_epoch" is
\* dropped
ReadTarget_NoEpochTest(n) ==
    /\ cpc[n] = "idle"
    /\ target_epoch # 0
    /\ ctarget' = [ctarget EXCEPT ![n] = target_epoch]
    /\ cpc' = [cpc EXCEPT ![n] = "acquire"]
    /\ UNCHANGED << target_epoch, update_lock, scaling_request, active_nodes,
                    heartbeats, current_epoch, deployment_name, pipeVars,
                    syncVars, poolVars, sdsVars,
                    resVars, wkVars >>

\* handle_sequential_update: MGET of the target epoch; return unless it is
\* ahead of the pod's epoch
ReadTarget(n) ==
    /\ cpc[n] = "idle"
    /\ target_epoch # 0
    /\ target_epoch > current_epoch[n]
    /\ ctarget' = [ctarget EXCEPT ![n] = target_epoch]
    /\ cpc' = [cpc EXCEPT ![n] = "acquire"]
    /\ UNCHANGED << target_epoch, update_lock, scaling_request, active_nodes,
                    heartbeats, current_epoch, deployment_name, pipeVars,
                    syncVars, poolVars, sdsVars,
                    resVars, wkVars >>

\* SET clamav:update_lock {pod} EX 600 NX: whether the key was set
SetNx(n) == update_lock = "none"

\* handle_sequential_update: the lock attempt; a pod that fails returns
AcquireLock(n) ==
    /\ cpc[n] = "acquire"
    /\ IF SetNx(n)
       THEN /\ update_lock' = n
            /\ cpc' = [cpc EXCEPT ![n] = "count"]
       ELSE /\ cpc' = [cpc EXCEPT ![n] = "idle"]
            /\ UNCHANGED update_lock
    /\ UNCHANGED << target_epoch, scaling_request, active_nodes, heartbeats,
                    current_epoch, ctarget, deployment_name, pipeVars,
                    syncVars, poolVars, sdsVars,
                    resVars, wkVars >>

\* _get_active_node_count: members with a live heartbeat; the others are
\* removed from the set
LiveNodes == { m \in active_nodes : heartbeats[m] # -1 }

\* Variant of CountNodes: the single-node test is left out
CountNodes_AlwaysReloads(n) ==
    /\ cpc[n] = "count"
    /\ active_nodes' = LiveNodes
    /\ cpc' = [cpc EXCEPT ![n] = "reload"]
    /\ UNCHANGED << target_epoch, update_lock, scaling_request, heartbeats,
                    current_epoch, ctarget, deployment_name, pipeVars,
                    syncVars, poolVars, sdsVars,
                    resVars, wkVars >>

CountNodes(n) ==
    /\ cpc[n] = "count"
    /\ active_nodes' = LiveNodes
    /\ cpc' = [cpc EXCEPT ![n] =
                  IF Cardinality(LiveNodes) = 1 /\ deployment_name
                  THEN "surge_delete" ELSE "reload"]
    /\ UNCHANGED << target_epoch, update_lock, scaling_request, heartbeats,
                    current_epoch, ctarget, deployment_name, pipeVars,
                    syncVars, poolVars, sdsVars,
                    resVars, wkVars >>

\* single node: delete clamav:scaling_request ...
SurgeDelete(n) ==
    /\ cpc[n] = "surge_delete"
    /\ scaling_request' = 0
    /\ cpc' = [cpc EXCEPT ![n] = "surge_push"]
    /\ UNCHANGED << target_epoch, update_lock, active_nodes, heartbeats,
                    current_epoch, ctarget, deployment_name, pipeVars,
                    syncVars, poolVars, sdsVars,
                    resVars, wkVars >>

\* Variant of SurgePush: the surge path returns without the "finally"
SurgePush_ReturnsWithoutRelease(n) ==
    /\ cpc[n] = "surge_push"
    /\ scaling_request' = scaling_request + 1
    /\ cpc' = [cpc EXCEPT ![n] = "idle"]
    /\ UNCHANGED << target_epoch, update_lock, active_nodes, heartbeats,
                    current_epoch, ctarget, deployment_name, pipeVars,
                    syncVars, poolVars, sdsVars,
                    resVars, wkVars >>

\* ... push "surge" and return through the "finally"
SurgePush(n) ==
    /\ cpc[n] = "surge_push"
    /\ scaling_request' = scaling_request + 1
    /\ cpc' = [cpc EXCEPT ![n] = "release"]
    /\ UNCHANGED << target_epoch, update_lock, active_nodes, heartbeats,
                    current_epoch, ctarget, deployment_name, pipeVars,
                    syncVars, poolVars, sdsVars,
                    resVars, wkVars >>

\* _trigger_reload is entered: RELOAD is sent to the local engine
ReloadBegin(n) ==
    /\ cpc[n] = "reload"
    /\ cpc' = [cpc EXCEPT ![n] = "reloading"]
    /\ UNCHANGED << target_epoch, update_lock, scaling_request, active_nodes,
                    heartbeats, current_epoch, ctarget, deployment_name,
                    pipeVars, syncVars, poolVars, sdsVars,
                    resVars, wkVars >>

\* the ways _trigger_reload returns: PONG within the readiness window, the
\* RELOAD command raised, or 60 s passed without PONG
ReloadOutcomes == {"reload_pong", "reload_failed", "reload_timeout"}

\* _trigger_reload returns None in each of its three ways
TriggerReloadReturns(n, outcome) ==
    /\ cpc[n] = "reloading"
    /\ cpc' = [cpc EXCEPT ![n] = outcome]
    /\ UNCHANGED << target_epoch, update_lock, scaling_request, active_nodes,
                    heartbeats, current_epoch, ctarget, deployment_name,
                    pipeVars, syncVars, poolVars, sdsVars,
                    resVars, wkVars >>

\* Variant of ReloadEnd: "self.current_epoch = target_epoch" is left out
ReloadEnd_EpochNotAdopted(n) ==
    /\ cpc[n] \in ReloadOutcomes
    /\ cpc' = [cpc EXCEPT ![n] = "scale_down"]
    /\ UNCHANGED << target_epoch, update_lock, scaling_request, active_nodes,
                    heartbeats, current_epoch, ctarget, deployment_name,
                    pipeVars, syncVars, poolVars, sdsVars,
                    resVars, wkVars >>

\* "self.current_epoch = target_epoch" follows the call of _trigger_reload,
\* whichever way it returned
ReloadEnd(n) ==
    /\ cpc[n] \in ReloadOutcomes
    /\ current_epoch' = [current_epoch EXCEPT ![n] = ctarget[n]]
    /\ cpc' = [cpc EXCEPT ![n] = "scale_down"]
    /\ UNCHANGED << target_epoch, update_lock, scaling_request, active_nodes,
                    heartbeats, ctarget, deployment_name, pipeVars, syncVars,
                    poolVars, sdsVars,
                    resVars, wkVars >>

\* _handle_scale_down: no registered pod has a heartbeat behind the target
all_updated(target) ==
    \A m \in active_nodes : heartbeats[m] # -1 => heartbeats[m] >= target

ScaleDown(n) ==
    /\ cpc[n] = "scale_down"
    /\ scaling_request' = IF all_updated(ctarget[n]) THEN 0 ELSE scaling_request
    /\ cpc' = [cpc EXCEPT ![n] = "release"]
    /\ UNCHANGED << target_epoch, update_lock, active_nodes, heartbeats,
                    current_epoch, ctarget, deployment_name, pipeVars,
                    syncVars, poolVars, sdsVars,
                    resVars, wkVars >>

\* an exception inside the "try" (a store error, a failure to reach the
\* engine socket): it is logged and the "finally" follows
SectionRaises(n) ==
    /\ cpc[n] \in {"count", "surge_delete", "surge_push", "reload", "scale_down"}
    /\ cpc' = [cpc EXCEPT ![n] = "release"]
    /\ UNCHANGED << target_epoch, update_lock, scaling_request, active_nodes,
                    heartbeats, current_epoch, ctarget, deployment_name,
                    pipeVars, syncVars, poolVars, sdsVars,
                    resVars, wkVars >>

\* "finally: delete(lock_key)", whoever holds the key
ReleaseLock(n) ==
    /\ cpc[n] = "release"
    /\ update_lock' = "none"
    /\ cpc' = [cpc EXCEPT ![n] = "idle"]
    /\ UNCHANGED << target_epoch, scaling_request, active_nodes, heartbeats,
                    current_epoch, ctarget, deployment_name, pipeVars,
                    syncVars, poolVars, sdsVars,
                    resVars, wkVars >>

\* the lock key outlives its 600 s while its holder is still in the section
\* (the RELOAD command is sent without a timeout)
LockExpire ==
    /\ update_lock # "none"
    /\ update_lock' = "none"
    /\ UNCHANGED << target_epoch, scaling_request, active_nodes, heartbeats,
                    current_epoch, cpc, ctarget, deployment_name, pipeVars,
                    syncVars, poolVars, sdsVars,
                    resVars, wkVars >>

CoordNext ==
    \/ \E env \in TargetEpochEnv : set_target_epoch(env)
    \/ \E n \in Nodes : heartbeat(n)
    \/ \E n \in Nodes : HeartbeatExpire(n)
    \/ \E n \in Nodes : ReadTarget(n)
    \/ \E n \in Nodes : AcquireLock(n)
    \/ \E n \in Nodes : CountNodes(n)
    \/ \E n \in Nodes : SurgeDelete(n)
    \/ \E n \in Nodes : SurgePush(n)
    \/ \E n \in Nodes : ReloadBegin(n)
    \/ \E n \in Nodes, outcome \in ReloadOutcomes : TriggerReloadReturns(n, outcome)
    \/ \E n \in Nodes : ReloadEnd(n)
    \/ \E n \in Nodes : ScaleDown(n)
    \/ \E n \in Nodes : SectionRaises(n)
    \/ \E n \in Nodes : ReleaseLock(n)
    \/ LockExpire

\* a pod is in the update section from the acquisition of the lock until
\* it has run the "finally"
InUpdateSection(n) ==
    cpc[n] \in {"count", "surge_delete", "surge_push", "reload", "reloading",
                "scale_down", "release"} \cup ReloadOutcomes

\* C3: at most one pod is in the update section, and so at most one is
\* reloading its engine, at any instant.
C3_OneNodeInUpdateSection ==
    \A a, b \in Nodes : (InUpdateSection(a) /\ InUpdateSection(b)) => a = b

\* C14: no step lowers the current_epoch of any pod, whatever the pods do
\* and whatever epoch the operator publishes.
C14_CurrentEpochNonDecreasing ==
    [][\A n \in Nodes : current_epoch'[n] >= current_epoch[n]]_vars

\* C14, witness: a pod that reloaded, ticked and published its epoch after
\* the operator set the target epoch below it
C14_Witness ==
    \E n \in Nodes :
        /\ target_epoch > 0
        /\ current_epoch[n] > target_epoch
        /\ heartbeats[n] = current_epoch[n]
        /\ cpc[n] = "idle"

\* C15: in a cluster whose pods keep ticking, the epoch of every pod and
\* the epoch in every pod's heartbeat end up equal to the target epoch the
\* operator raised last.
C15_HeartbeatsReachTargetEpoch ==
    <>[](\A n \in Nodes : /\ current_epoch[n] = target_epoch
                           /\ heartbeats[n] = target_epoch)

\* C15, witness: both pods reloaded to the raised target epoch and their
\* heartbeats report it
C15_Witness ==
    /\ target_epoch = MaxEpoch
    /\ \A n \in Nodes : current_epoch[n] = target_epoch
                          /\ heartbeats[n] = target_epoch
                          /\ cpc[n] = "idle"

C16_ScalingRequestDeletedOnceBothUpdated ==
    (/\ target_epoch > 0
     /\ active_nodes = Nodes
     /\ \A n \in Nodes : /\ cpc[n] = "idle"
                          /\ current_epoch[n] = target_epoch
                          /\ heartbeats[n] = target_epoch)
        => scaling_request = 0

\* C17: the key update_lock names a pod only while that pod is in the
\* update section; when no pod is in handle_sequential_update the key is
\* absent.
C17_LockHeldOnlyInsideSection ==
    /\ \A n \in Nodes : update_lock = n => InUpdateSection(n)
    /\ (\A n \in Nodes : cpc[n] = "idle") => update_lock = "none"

\* C17, witness: every pod is between two ticks and the lock is absent
\* after one pod left through the surge request and one through a
\* completed reload
C17_Witness ==
    /\ \A n \in Nodes : cpc[n] = "idle"
    /\ update_lock = "none"
    /\ scaling_request > 0
    /\ \E n \in Nodes : current_epoch[n] > 0

\* C36: a pod that runs the "finally" of its update section deletes the
\* lock key only when the key is absent or holds the pod's own name, never
\* when it holds the name of another pod.
C36_DeletesOnlyOwnLock ==
    [][\A n \in Nodes :
          (cpc[n] = "release" /\ cpc'[n] = "idle")
              => update_lock \in {n, "none"}]_vars

\* C37: a step that changes the current_epoch of a pod is taken after
\* _trigger_reload returned with the engine answering PONG.
C37_EpochAdoptedOnlyAfterPong ==
    [][\A n \in Nodes :
          current_epoch'[n] # current_epoch[n] => cpc[n] = "reload_pong"]_vars

(***************************************************************************)
(* Synchronous-blocking producer: ExternalProcessorServicer.Process over   *)
(* ProducerService, with the consumer that scans the stream.               *)
(***************************************************************************)
SyncIdle ==
    /\ sync_stage = "start"
    /\ sync_is_priority = FALSE
    /\ sync_task_id = FALSE
    /\ sync_start_times = FALSE
    /\ sync_nbody = 0
    /\ sync_queue = [q \in QueueNames |-> 0]
    /\ sync_data = 0
    /\ sync_done = FALSE
    /\ sync_result = << >>
    /\ sync_reported = "none"
    /\ sync_known = "none"
    /\ sync_timed_out = FALSE
    /\ sync_body_responses = << >>

\* request_headers: the x-priority header is read, CONTINUE is yielded
SyncHeaders(high) ==
    /\ sync_stage = "start"
    /\ sync_is_priority' = high
    /\ sync_stage' = "body"
    /\ UNCHANGED << sync_task_id, sync_start_times, sync_nbody, sync_queue,
                    sync_data, sync_done, sync_result, sync_reported,
                    sync_known, sync_timed_out, sync_body_responses, pipeVars,
                    coordVars, poolVars, sdsVars,
                    resVars, wkVars >>

\* request_body: prepare_scan and emit_task on the first chunk, push_chunk;
\* a chunk without end_of_stream is answered CONTINUE at once, the last one
\* sets the done sentinel and enters wait_for_result.  storeOk = FALSE is a
\* store error at the first store call: the iteration yields nothing.
SyncBody(eos, storeOk) ==
    /\ sync_stage = "body"
    /\ sync_nbody < MaxBody
    /\ sync_nbody' = sync_nbody + 1
    /\ sync_task_id' = TRUE
    /\ sync_start_times' = (sync_start_times \/ ~sync_task_id)
    /\ IF storeOk
       THEN /\ sync_queue' = IF sync_task_id THEN sync_queue
                             ELSE [sync_queue EXCEPT
                                     ![QueueFor(sync_is_priority)] = @ + 1]
            /\ sync_data' = sync_data + 1
            /\ sync_done' = (sync_done \/ eos)
            /\ sync_stage' = IF eos THEN "waiting" ELSE "body"
            /\ sync_body_responses' = IF eos THEN sync_body_responses
                                      ELSE Append(sync_body_responses, "CONTINUE")
       ELSE /\ sync_body_responses' = Append(sync_body_responses, "NONE")
            /\ UNCHANGED << sync_queue, sync_data, sync_done, sync_stage >>
    /\ UNCHANGED << sync_is_priority, sync_result, sync_reported, sync_known,
                    sync_timed_out, pipeVars, coordVars, poolVars, sdsVars,
                    resVars, wkVars >>

\* Variant of SyncVerdict: the status of the record is not looked at
SyncVerdict_AlwaysContinue(status) == "CONTINUE"

\* the response to the last chunk for a popped record
SyncVerdict(status) == IF status = "INFECTED" THEN "403" ELSE "CONTINUE"

\* wait_for_result returned a record: ImmediateResponse 403 on INFECTED,
\* CONTINUE otherwise
SyncWaitResult ==
    /\ sync_stage = "waiting"
    /\ sync_result # << >>
    /\ sync_result' = Tail(sync_result)
    /\ sync_start_times' = FALSE
    /\ sync_known' = Head(sync_result)
    /\ sync_body_responses' =
           Append(sync_body_responses, SyncVerdict(Head(sync_result)))
    /\ sync_stage' = "ended"
    /\ UNCHANGED << sync_is_priority, sync_task_id, sync_nbody, sync_queue,
                    sync_data, sync_done, sync_reported, sync_timed_out,
                    pipeVars, coordVars, poolVars, sdsVars,
                    resVars, wkVars >>

\* wait_for_result(timeout=30) returned None: CONTINUE
SyncWaitTimeout ==
    /\ sync_stage = "waiting"
    /\ sync_result = << >>
    /\ sync_start_times' = FALSE
    /\ sync_timed_out' = TRUE
    /\ sync_body_responses' = Append(sync_body_responses, "CONTINUE")
    /\ sync_stage' = "ended"
    /\ UNCHANGED << sync_is_priority, sync_task_id, sync_nbody, sync_queue,
                    sync_data, sync_done, sync_result, sync_reported,
                    sync_known, pipeVars, coordVars, poolVars, sdsVars,
                    resVars, wkVars >>

\* any other message: a CONTINUE headers response
SyncOther ==
    /\ sync_stage \in {"body", "ended"}
    /\ sync_stage' = "closed"
    /\ UNCHANGED << sync_is_priority, sync_task_id, sync_start_times,
                    sync_nbody, sync_queue, sync_data, sync_done, sync_result,
                    sync_reported, sync_known, sync_timed_out,
                    sync_body_responses, pipeVars, coordVars, poolVars, sdsVars,
                    resVars, wkVars >>

\* the consumer's _process_stream_task publishes its record: CLEAN or
\* INFECTED once get_chunks has ended on the done sentinel, ERROR whenever
\* the scan raises
SyncWorkerReport(status) ==
    /\ \E q \in QueueNames : sync_queue[q] > 0
    /\ sync_reported = "none"
    /\ status \in {"CLEAN", "INFECTED"} => sync_done
    /\ sync_result' = Append(sync_result, status)
    /\ sync_reported' = status
    /\ UNCHANGED << sync_stage, sync_is_priority, sync_task_id,
                    sync_start_times, sync_nbody, sync_queue, sync_data,
                    sync_done, sync_known, sync_timed_out,
                    sync_body_responses, pipeVars, coordVars, poolVars, sdsVars,
                    resVars, wkVars >>

SyncNext ==
    \/ \E high \in BOOLEAN :
           SyncHeaders(high)
    \/ \E eos \in BOOLEAN, storeOk \in BOOLEAN :
           SyncBody(eos, storeOk)
    \/ SyncWaitResult
    \/ SyncWaitTimeout
    \/ SyncOther
    \/ \E status \in {"CLEAN", "INFECTED", "ERROR"} :
           SyncWorkerReport(status)

\* the response given to the chunk that carried end_of_stream, if any
SyncEosResponse ==
    IF sync_stage \in {"ended", "closed"} /\ sync_done
    THEN sync_body_responses[Len(sync_body_responses)]
    ELSE "none"

\* C4 as stated: the response to the last chunk is given only once the scan
\* result is known, and is a 403 exactly when that result is INFECTED
C4_AsStated ==
    SyncEosResponse # "none" =>
        /\ sync_known # "none"
        /\ SyncEosResponse = "403" <=> sync_known = "INFECTED"

\* C4 (amended): the response to the last chunk is given only once the scan
\* result was popped or the 30 s wait ran out; it is a 403 exactly when an
\* INFECTED result was popped, and CONTINUE in every other case, the
\* timeout included.
C4_EosAnsweredAfterResultOrTimeout ==
    SyncEosResponse # "none" =>
        /\ sync_known # "none" \/ sync_timed_out
        /\ sync_known = "INFECTED" => SyncEosResponse = "403"
        /\ sync_known # "INFECTED" => SyncEosResponse = "CONTINUE"
        /\ sync_timed_out => sync_known = "none"

\* C4, witness: an INFECTED record was popped and the last chunk answered 403
C4_Witness ==
    /\ sync_known = "INFECTED"
    /\ SyncEosResponse = "403"
    /\ sync_nbody > 1

\* C5: for a stream whose scan result is INFECTED no body chunk was
\* answered CONTINUE.
C5_NoContinueForInfectedStream ==
    sync_reported = "INFECTED" =>
        \A i \in 1..Len(sync_body_responses) :
            sync_body_responses[i] # "CONTINUE"

(***************************************************************************)
(* The 4:1 worker pool: the five _worker_loop tasks VirusScanHandler.run   *)
(* starts, and the producers that fill the two queues.                     *)
(***************************************************************************)
\* jobs a queue holds at most
MaxQueued == 2

\* run(): four loops "High-Staff-i" and the loop "Low-Staff-0"
HighStaff == {"High-Staff-0", "High-Staff-1", "High-Staff-2", "High-Staff-3"}
LowStaff == "Low-Staff-0"
PoolWorkers == HighStaff \cup {LowStaff}

\* pops in a row the pool is said to need at most to reach the normal queue
PoolWindow == Cardinality(PoolWorkers)

\* Variant of QueuesOf: every loop is started priority-first
QueuesOf_AllPriorityFirst(w) == << "scan_priority", "scan_normal" >>

\* _worker_loop: "queues = [primary_q]" plus the secondary queue if given
QueuesOf(w) == IF w \in HighStaff THEN << "scan_priority", "scan_normal" >>
               ELSE << "scan_normal" >>

PoolIdle ==
    /\ pool_queues = [q \in QueueNames |-> << >>]
    /\ pool_pc = [w \in PoolWorkers |-> "pop"]
    /\ pool_from = [w \in PoolWorkers |-> "none"]
    /\ pool_run = 0
    /\ normal_served = FALSE

\* enqueue_task of some producer: LPUSH onto the queue of the priority
PoolEnqueue(is_priority) ==
    /\ Len(pool_queues[QueueFor(is_priority)]) < MaxQueued
    /\ pool_queues' = [pool_queues EXCEPT
                          ![QueueFor(is_priority)] = Append(@, "job")]
    /\ normal_served' = (is_priority /\ normal_served)
    /\ UNCHANGED << pool_pc, pool_from, pool_run, pipeVars, coordVars, syncVars, sdsVars,
                    resVars, wkVars >>

\* _worker_loop: provider.pop(queues, timeout=2) returned a job, which the
\* loop hands to process_task
PoolPop(w) ==
    /\ pool_pc[w] = "pop"
    /\ BrPopFrom(pool_queues, QueuesOf(w)) # "none"
    /\ LET q == BrPopFrom(pool_queues, QueuesOf(w))
       IN  /\ pool_queues' = [pool_queues EXCEPT ![q] = Tail(@)]
           /\ pool_from' = [pool_from EXCEPT ![w] = q]
           /\ pool_run' = IF q = "scan_normal" \/ pool_queues["scan_normal"] = << >>
                          THEN 0
                          ELSE IF pool_run < PoolWindow THEN pool_run + 1
                          ELSE pool_run
           /\ normal_served' = (normal_served \/ q = "scan_normal")
    /\ pool_pc' = [pool_pc EXCEPT ![w] = "busy"]
    /\ UNCHANGED << pipeVars, coordVars, syncVars, sdsVars,
                    resVars, wkVars >>

\* process_task returned: the loop polls again
PoolTaskDone(w) ==
    /\ pool_pc[w] = "busy"
    /\ pool_pc' = [pool_pc EXCEPT ![w] = "pop"]
    /\ pool_from' = [pool_from EXCEPT ![w] = "none"]
    /\ UNCHANGED << pool_queues, pool_run, normal_served, pipeVars, coordVars,
                    syncVars, sdsVars,
                    resVars, wkVars >>

PoolNext ==
    \/ \E is_priority \in BOOLEAN :
           PoolEnqueue(is_priority)
    \/ \E w \in PoolWorkers :
           PoolPop(w)
    \/ \E w \in PoolWorkers :
           PoolTaskDone(w)

SdsCapacity == 2

\* ticks a cached certificate stays valid (cache_ttl_seconds)
SdsTtl == 1

\* the latest tick of the monotonic clock
MaxSdsTime == 3

\* _generate_cert calls in one run
MaxSdsRequests == 4

\* SNI hostnames the proxy asks for: one more than the cache can hold
SdsNames == 1..(SdsCapacity + 1)

NoEntry == [name |-> 0, serial |-> 0, created_at |-> 0]

\* position of the entry for a hostname in the cache, 0 when there is none
IndexOf(certs, name) ==
    IF \E i \in 1..Len(certs) : certs[i].name = name
    THEN CHOOSE i \in 1..Len(certs) : certs[i].name = name
    ELSE 0

RemoveAt(certs, i) == SubSeq(certs, 1, i - 1) \o SubSeq(certs, i + 1, Len(certs))

\* Variant of get_cached_cert: a hit does not move the entry to the end
get_cached_cert_NoMoveToEnd(certs, name, now) ==
    LET i == IndexOf(certs, name)
    IN  IF i = 0 THEN [entry |-> NoEntry, cache |-> certs]
        ELSE IF now - certs[i].created_at > SdsTtl
             THEN [entry |-> NoEntry, cache |-> RemoveAt(certs, i)]
             ELSE [entry |-> certs[i], cache |-> certs]

\* _get_cached_cert: the entry, if there is one and it has not expired,
\* together with the cache it leaves (an expired entry is deleted, a hit is
\* moved to the end)
get_cached_cert(certs, name, now) ==
    LET i == IndexOf(certs, name)
    IN  IF i = 0 THEN [entry |-> NoEntry, cache |-> certs]
        ELSE IF now - certs[i].created_at > SdsTtl
             THEN [entry |-> NoEntry, cache |-> RemoveAt(certs, i)]
             ELSE [entry |-> certs[i],
                   cache |-> Append(RemoveAt(certs, i), certs[i])]

\* "while len(self._cache) > self._cache_max_size: popitem(last=False)"
RECURSIVE PopWhileOver(_)
PopWhileOver(certs) ==
    IF Len(certs) > SdsCapacity THEN PopWhileOver(Tail(certs)) ELSE certs

\* Variant of put_cached_cert: the new entry is not stored
put_cached_cert_NotStored(certs, name, entry) == certs

\* _put_cached_cert
put_cached_cert(certs, name, entry) ==
    LET i == IndexOf(certs, name)
    IN  IF i # 0 THEN Append(RemoveAt(certs, i), entry)
        ELSE PopWhileOver(Append(certs, entry))

NamesIn(certs) == { certs[i].name : i \in 1..Len(certs) }

SdsIdle ==
    /\ sds_cache = << >>
    /\ sds_now = 0
    /\ sds_log = << >>

\* _generate_cert(common_name): the cached certificate, or a new one that
\* is put into the cache
generate_cert(common_name) ==
    /\ Len(sds_log) < MaxSdsRequests
    /\ LET got == get_cached_cert(sds_cache, common_name, sds_now)
           hit == got.entry # NoEntry
           made == [name |-> common_name, serial |-> Len(sds_log) + 1,
                    created_at |-> sds_now]
           after == IF hit THEN got.cache
                    ELSE put_cached_cert(got.cache, common_name, made)
           returned == IF hit THEN got.entry ELSE made
       IN  /\ sds_cache' = after
           /\ sds_log' = Append(sds_log,
                  [name |-> common_name, serial |-> returned.serial,
                   created_at |-> returned.created_at, at |-> sds_now,
                   hit |-> hit,
                   evicted |-> NamesIn(got.cache) \ NamesIn(after),
                   kept |-> NamesIn(after)])
    /\ UNCHANGED << sds_now, pipeVars, coordVars, syncVars, poolVars,
                    resVars, wkVars >>

\* the monotonic clock advances
SdsTick ==
    /\ sds_now < MaxSdsTime
    /\ sds_now' = sds_now + 1
    /\ UNCHANGED << sds_cache, sds_log, pipeVars, coordVars, syncVars, poolVars,
                    resVars, wkVars >>

SdsNext ==
    \/ \E common_name \in SdsNames : generate_cert(common_name)
    \/ SdsTick

\* the latest call for a hostname among the first k calls, 0 when none
LastUse(name, k) ==
    IF \E i \in 1..k : sds_log[i].name = name
    THEN CHOOSE i \in 1..k :
             sds_log[i].name = name
                 /\ \A j \in 1..k : sds_log[j].name = name => j <= i
    ELSE 0

\* C18 as stated: any two calls for one hostname at most one TTL apart
\* return the same certificate and key
C18_SameCertWithinTtlWindow ==
    \A i, j \in 1..Len(sds_log) :
        (i < j /\ sds_log[i].name = sds_log[j].name
               /\ sds_log[j].at - sds_log[i].at <= SdsTtl)
            => sds_log[j].serial = sds_log[i].serial

\* C18 (amended): two calls for one hostname return the same certificate
\* and key when the later call comes at most one TTL after the certificate
\* of the earlier call was created and the hostname was not evicted for
\* capacity in between.
C18_SameCertUnlessExpiredOrEvicted ==
    \A i, j \in 1..Len(sds_log) :
        (/\ i < j
         /\ sds_log[i].name = sds_log[j].name
         /\ sds_log[j].at - sds_log[i].created_at <= SdsTtl
         /\ \A k \in (i + 1)..j : sds_log[i].name \notin sds_log[k].evicted)
            => /\ sds_log[j].serial = sds_log[i].serial
               /\ sds_log[j].created_at = sds_log[i].created_at

\* C18, witness: a hostname asked for again one tick later, after a call
\* for another hostname, got the certificate of its first call
C18_Witness ==
    \E i, j, k \in 1..Len(sds_log) :
        /\ i < k /\ k < j
        /\ sds_log[i].name = sds_log[j].name
        /\ sds_log[k].name # sds_log[i].name
        /\ sds_log[j].at > sds_log[i].at
        /\ sds_log[j].hit
        /\ sds_log[j].serial = sds_log[i].serial

\* C19: the cache never holds more than SdsCapacity entries, an insert
\* evicts at most one entry, and the entry it evicts was used (put, or
\* returned by a hit) less recently than every entry it keeps.
C19_CapacityAndLruEviction ==
    /\ Len(sds_cache) <= SdsCapacity
    /\ \A k \in 1..Len(sds_log) :
           /\ Cardinality(sds_log[k].evicted) <= 1
           /\ sds_log[k].evicted # {} => ~sds_log[k].hit
           /\ \A v \in sds_log[k].evicted :
                  \A m \in sds_log[k].kept :
                      LastUse(v, k - 1) < LastUse(m, k)

\* C19, witness: a full cache evicted the entry put second, because the
\* entry put first had been returned by a hit since
C19_Witness ==
    \E k \in 1..Len(sds_log) :
        \E v \in sds_log[k].evicted : \E m \in sds_log[k].kept :
            \E h \in 1..(k - 1) :
                /\ sds_log[h].name = m /\ sds_log[h].hit
                /\ LastUse(v, k - 1) < h
                /\ \E f \in 1..(h - 1) :
                       sds_log[f].name = m /\ f < LastUse(v, k - 1)

(***************************************************************************)
(* VirusScanHandler.run: the worker loops over ScannerTaskService          *)
(* .process_task, the coordination loop, and the shutdown event.           *)
(***************************************************************************)
\* worker loops run() creates: one of the four "High-Staff" loops and the
\* "Low-Staff" loop
Workers == {"High-Staff-0", "Low-Staff-0"}

\* run(): primary and secondary queue of each worker loop
WorkerLists(w) == IF w = "Low-Staff-0" THEN << "scan_normal" >>
                  ELSE << "scan_priority", "scan_normal" >>

\* jobs pushed onto the scan queues
MaxJobs == 2
JobIds == 1..MaxJobs

\* what a queue element can be: the JSON job of enqueue_task, bytes that are
\* no UTF-8, text that is no JSON, a JSON object without stream_id
JobKinds == {"job", "not_utf8", "not_json", "no_stream_id"}

WkIdle ==
    /\ wk_queues = [q \in QueueNames |-> << >>]
    /\ wk_kind = [j \in JobIds |-> "none"]
    /\ wk_pc = [w \in Workers |-> "top"]
    /\ wk_job = [w \in Workers |-> 0]
    /\ shutdown_event = FALSE
    /\ coordination_pc = "check"
    /\ run_pc = "waiting"
    /\ wk_takers = [j \in JobIds |-> {}]
    /\ wk_acked = [j \in JobIds |-> {}]
    /\ wk_outcome = [j \in JobIds |-> "none"]

\* Variant of LoopExceptPc: the exception leaves the worker loop
LoopExceptPc_Reraised == "raised"

\* _worker_loop, "except Exception": the error is logged and the loop sleeps
\* one second before its next pass
LoopExceptPc == "sleep"

\* process_task, "except json.JSONDecodeError" and "except Exception": the
\* error is logged and process_task returns to the loop
TaskExceptPc == "top"

\* a client pushes an element onto a scan queue (LPUSH; the pop is BRPOP, so
\* each list is first in, first out)
WkEnqueue(kind, q) ==
    /\ \E j \in JobIds :
           /\ wk_kind[j] = "none"
           /\ \A i \in JobIds : i < j => wk_kind[i] # "none"
           /\ wk_kind' = [wk_kind EXCEPT ![j] = kind]
           /\ wk_queues' = [wk_queues EXCEPT ![q] = Append(@, j)]
    /\ UNCHANGED << wk_pc, wk_job, shutdown_event, coordination_pc, run_pc,
                    wk_takers, wk_acked, wk_outcome, pipeVars, coordVars,
                    syncVars, poolVars, sdsVars, resVars >>

\* the signal handler of serve(): shutdown_event.set()
SetShutdown ==
    /\ ~shutdown_event
    /\ shutdown_event' = TRUE
    /\ UNCHANGED << wk_queues, wk_kind, wk_pc, wk_job, coordination_pc,
                    run_pc, wk_takers, wk_acked, wk_outcome, pipeVars,
                    coordVars, syncVars, poolVars, sdsVars, resVars >>

\* Variant of WkLoopTop: the shutdown event is not tested
WkLoopTop_IgnoresShutdown(w) ==
    /\ wk_pc[w] = "top"
    /\ wk_pc' = [wk_pc EXCEPT ![w] = "pop"]
    /\ UNCHANGED << wk_queues, wk_kind, wk_job, shutdown_event,
                    coordination_pc, run_pc, wk_takers, wk_acked, wk_outcome,
                    pipeVars, coordVars, syncVars, poolVars, sdsVars,
                    resVars >>

\* _worker_loop, head of "while True": leave when the event is set
WkLoopTop(w) ==
    /\ wk_pc[w] = "top"
    /\ wk_pc' = [wk_pc EXCEPT ![w] = IF shutdown_event THEN "exited" ELSE "pop"]
    /\ UNCHANGED << wk_queues, wk_kind, wk_job, shutdown_event,
                    coordination_pc, run_pc, wk_takers, wk_acked, wk_outcome,
                    pipeVars, coordVars, syncVars, poolVars, sdsVars,
                    resVars >>

\* Variant of WkPop: the element is read and left on its list
WkPop_LeavesElement(w) ==
    /\ wk_pc[w] = "pop"
    /\ BrPopFrom(wk_queues, WorkerLists(w)) # "none"
    /\ LET q == BrPopFrom(wk_queues, WorkerLists(w))
           j == Head(wk_queues[q])
       IN  /\ wk_job' = [wk_job EXCEPT ![w] = j]
           /\ wk_takers' = [wk_takers EXCEPT ![j] = @ \cup {w}]
    /\ wk_pc' = [wk_pc EXCEPT ![w] = "decode"]
    /\ UNCHANGED << wk_queues, wk_kind, shutdown_event, coordination_pc,
                    run_pc, wk_acked, wk_outcome, pipeVars, coordVars,
                    syncVars, poolVars, sdsVars, resVars >>

\* provider.pop(queues, timeout=2) is one BRPOP: the store removes the
\* element from the first listed list that has one and hands it to this
\* caller alone
WkPop(w) ==
    /\ wk_pc[w] = "pop"
    /\ BrPopFrom(wk_queues, WorkerLists(w)) # "none"
    /\ LET q == BrPopFrom(wk_queues, WorkerLists(w))
           j == Head(wk_queues[q])
       IN  /\ wk_job' = [wk_job EXCEPT ![w] = j]
           /\ wk_queues' = [wk_queues EXCEPT ![q] = Tail(@)]
           /\ wk_takers' = [wk_takers EXCEPT ![j] = @ \cup {w}]
    /\ wk_pc' = [wk_pc EXCEPT ![w] = "decode"]
    /\ UNCHANGED << wk_kind, shutdown_event, coordination_pc, run_pc,
                    wk_acked, wk_outcome, pipeVars, coordVars, syncVars,
                    poolVars, sdsVars, resVars >>

\* the pop returns nothing after 2 s ("continue"), or it raises a store
\* error, which the loop's "except Exception" takes
WkPopNothing(w, raises) ==
    /\ wk_pc[w] = "pop"
    /\ raises \/ BrPopFrom(wk_queues, WorkerLists(w)) = "none"
    /\ wk_pc' = [wk_pc EXCEPT ![w] = IF raises THEN LoopExceptPc ELSE "top"]
    /\ UNCHANGED << wk_queues, wk_kind, wk_job, shutdown_event,
                    coordination_pc, run_pc, wk_takers, wk_acked, wk_outcome,
                    pipeVars, coordVars, syncVars, poolVars, sdsVars,
                    resVars >>

\* "task_data = task_data_raw.decode('utf-8')" stands in the loop's "try",
\* outside process_task
WkDecode(w) ==
    /\ wk_pc[w] = "decode"
    /\ IF wk_kind[wk_job[w]] = "not_utf8"
       THEN /\ wk_pc' = [wk_pc EXCEPT ![w] = LoopExceptPc]
            /\ wk_outcome' = [wk_outcome EXCEPT ![wk_job[w]] = "decode_error"]
            /\ wk_job' = [wk_job EXCEPT ![w] = 0]
       ELSE /\ wk_pc' = [wk_pc EXCEPT ![w] = "process_task"]
            /\ UNCHANGED << wk_outcome, wk_job >>
    /\ UNCHANGED << wk_queues, wk_kind, shutdown_event, coordination_pc,
                    run_pc, wk_takers, wk_acked, pipeVars, coordVars,
                    syncVars, poolVars, sdsVars, resVars >>

\* process_task: json.loads and the stream_id test
WkParse(w) ==
    /\ wk_pc[w] = "process_task"
    /\ LET kind == wk_kind[wk_job[w]]
       IN  IF kind = "job"
           THEN /\ wk_pc' = [wk_pc EXCEPT ![w] = "send_ack"]
                /\ UNCHANGED << wk_outcome, wk_job >>
           ELSE /\ wk_pc' = [wk_pc EXCEPT ![w] = TaskExceptPc]
                /\ wk_outcome' = [wk_outcome EXCEPT ![wk_job[w]] =
                                     IF kind = "not_json" THEN "json_error"
                                     ELSE "missing_stream_id"]
                /\ wk_job' = [wk_job EXCEPT ![w] = 0]
    /\ UNCHANGED << wk_queues, wk_kind, shutdown_event, coordination_pc,
                    run_pc, wk_takers, wk_acked, pipeVars, coordVars,
                    syncVars, poolVars, sdsVars, resVars >>

\* outcomes of a call on the store, the provider factory or the engine
CallOutcomes == {"ok", "raises"}

\* _send_ack: provider.push, then store.set; "set_raises" is the failure of
\* the second command after the first was applied.  An exception is taken
\* by process_task's "except Exception"
WkSendAck(w, outcome) ==
    /\ wk_pc[w] = "send_ack"
    /\ wk_acked' = [wk_acked EXCEPT ![wk_job[w]] =
                       IF outcome = "raises" THEN @ ELSE @ \cup {w}]
    /\ IF outcome = "ok"
       THEN /\ wk_pc' = [wk_pc EXCEPT ![w] = "provider"]
            /\ UNCHANGED << wk_outcome, wk_job >>
       ELSE /\ wk_pc' = [wk_pc EXCEPT ![w] = TaskExceptPc]
            /\ wk_outcome' = [wk_outcome EXCEPT ![wk_job[w]] = "ack_error"]
            /\ wk_job' = [wk_job EXCEPT ![w] = 0]
    /\ UNCHANGED << wk_queues, wk_kind, shutdown_event, coordination_pc,
                    run_pc, wk_takers, pipeVars, coordVars, syncVars,
                    poolVars, sdsVars, resVars >>

\* _process_stream_task: provider_factory("STREAM", ...) in its own "try",
\* whose "except" logs and returns
WkProvider(w, outcome) ==
    /\ wk_pc[w] = "provider"
    /\ IF outcome = "ok"
       THEN /\ wk_pc' = [wk_pc EXCEPT ![w] = "scan"]
            /\ UNCHANGED << wk_outcome, wk_job >>
       ELSE /\ wk_pc' = [wk_pc EXCEPT ![w] = "top"]
            /\ wk_outcome' = [wk_outcome EXCEPT ![wk_job[w]] = "provider_error"]
            /\ wk_job' = [wk_job EXCEPT ![w] = 0]
    /\ UNCHANGED << wk_queues, wk_kind, shutdown_event, coordination_pc,
                    run_pc, wk_takers, wk_acked, pipeVars, coordVars,
                    syncVars, poolVars, sdsVars, resVars >>

\* "await self.engine.scan(provider)" returns, or raises into the "except"
\* that reports ERROR
WkScan(w, outcome) ==
    /\ wk_pc[w] = "scan"
    /\ wk_pc' = [wk_pc EXCEPT ![w] = IF outcome = "ok" THEN "report"
                                     ELSE "report_error"]
    /\ UNCHANGED << wk_queues, wk_kind, wk_job, shutdown_event,
                    coordination_pc, run_pc, wk_takers, wk_acked, wk_outcome,
                    pipeVars, coordVars, syncVars, poolVars, sdsVars,
                    resVars >>

\* _report_result pushes the record; a store error there is taken by
\* process_task's "except Exception".  After the ERROR record the task
\* returns, after a verdict the TAT follows
WkReport(w, outcome) ==
    /\ wk_pc[w] \in {"report", "report_error"}
    /\ IF outcome = "ok" /\ wk_pc[w] = "report"
       THEN /\ wk_pc' = [wk_pc EXCEPT ![w] = "record_tat"]
            /\ UNCHANGED << wk_outcome, wk_job >>
       ELSE /\ wk_pc' = [wk_pc EXCEPT ![w] = IF outcome = "ok" THEN "top"
                                            ELSE TaskExceptPc]
            /\ wk_outcome' = [wk_outcome EXCEPT ![wk_job[w]] =
                                 IF outcome = "ok" THEN "error_reported"
                                 ELSE "report_error"]
            /\ wk_job' = [wk_job EXCEPT ![w] = 0]
    /\ UNCHANGED << wk_queues, wk_kind, shutdown_event, coordination_pc,
                    run_pc, wk_takers, wk_acked, pipeVars, coordVars,
                    syncVars, poolVars, sdsVars, resVars >>

\* store.set of the TAT in its own "try": a failure is logged as a warning
WkRecordTat(w, outcome) ==
    /\ wk_pc[w] = "record_tat"
    /\ wk_pc' = [wk_pc EXCEPT ![w] = "top"]
    /\ wk_outcome' = [wk_outcome EXCEPT ![wk_job[w]] =
                         IF outcome = "ok" THEN "reported" ELSE "tat_error"]
    /\ wk_job' = [wk_job EXCEPT ![w] = 0]
    /\ UNCHANGED << wk_queues, wk_kind, shutdown_event, coordination_pc,
                    run_pc, wk_takers, wk_acked, pipeVars, coordVars,
                    syncVars, poolVars, sdsVars, resVars >>

\* "await asyncio.sleep(1)" in the loop's "except Exception"
WkSleep(w) ==
    /\ wk_pc[w] = "sleep"
    /\ wk_pc' = [wk_pc EXCEPT ![w] = "top"]
    /\ UNCHANGED << wk_queues, wk_kind, wk_job, shutdown_event,
                    coordination_pc, run_pc, wk_takers, wk_acked, wk_outcome,
                    pipeVars, coordVars, syncVars, poolVars, sdsVars,
                    resVars >>

\* coordination_loop: the shutdown test, then heartbeat and
\* handle_sequential_update inside "try ... except Exception", then
\* "await asyncio.sleep(30)"
CoordinationStep ==
    /\ coordination_pc \in {"check", "tick", "sleep"}
    /\ coordination_pc' =
           CASE coordination_pc = "check" ->
                    IF shutdown_event THEN "exited" ELSE "tick"
             [] coordination_pc = "tick" -> "sleep"
             [] OTHER -> "check"
    /\ UNCHANGED << wk_queues, wk_kind, wk_pc, wk_job, shutdown_event,
                    run_pc, wk_takers, wk_acked, wk_outcome, pipeVars,
                    coordVars, syncVars, poolVars, sdsVars, resVars >>

\* run(): asyncio.wait(tasks, return_when=FIRST_EXCEPTION) returns when a
\* task has raised or all have ended; the pending tasks are cancelled and
\* the exception of a done task is raised again
RunWaitReturns ==
    /\ run_pc = "waiting"
    /\ LET raised == \E w \in Workers : wk_pc[w] = "raised"
           ended(w) == wk_pc[w] \in {"exited", "raised"}
       IN  /\ raised \/ (coordination_pc = "exited" /\ \A w \in Workers : ended(w))
           /\ run_pc' = IF raised THEN "raised" ELSE "returned"
           /\ wk_pc' = [w \in Workers |-> IF ended(w) THEN wk_pc[w]
                                          ELSE "cancelled"]
           /\ coordination_pc' = IF coordination_pc = "exited" THEN "exited"
                                 ELSE "cancelled"
    /\ UNCHANGED << wk_queues, wk_kind, wk_job, shutdown_event, wk_takers,
                    wk_acked, wk_outcome, pipeVars, coordVars, syncVars,
                    poolVars, sdsVars, resVars >>

\* one step of the worker loop w
WkStep(w) ==
    \/ WkLoopTop(w)
    \/ WkPop(w)
    \/ \E raises \in BOOLEAN : WkPopNothing(w, raises)
    \/ WkDecode(w)
    \/ WkParse(w)
    \/ \E outcome \in CallOutcomes \cup {"set_raises"} : WkSendAck(w, outcome)
    \/ \E outcome \in CallOutcomes : WkProvider(w, outcome)
    \/ \E outcome \in CallOutcomes : WkScan(w, outcome)
    \/ \E outcome \in CallOutcomes : WkReport(w, outcome)
    \/ \E outcome \in CallOutcomes : WkRecordTat(w, outcome)
    \/ WkSleep(w)

WorkersNext ==
    \/ \E kind \in JobKinds, q \in QueueNames : WkEnqueue(kind, q)
    \/ SetShutdown
    \/ \E w \in Workers : WkStep(w)
    \/ CoordinationStep
    \/ RunWaitReturns

\* every task of the event loop runs when it can: a blocking pop returns
\* within its 2 s, a sleep ends, and a job in flight comes to its end
WorkersFairness ==
    /\ \A w \in Workers : WF_vars(WkStep(w))
    /\ WF_vars(CoordinationStep)
    /\ WF_vars(RunWaitReturns)

\* C31: no worker loop is ever ended by an exception or cancelled, run()
\* never raises, and a worker loop that has left its "while" did so on the
\* shutdown event: whatever happens to a job, its worker goes back to the
\* head of the loop.
C31_NoJobStopsAWorker ==
    /\ \A w \in Workers :
           /\ wk_pc[w] \notin {"raised", "cancelled"}
           /\ wk_pc[w] = "exited" => shutdown_event
    /\ coordination_pc # "cancelled"
    /\ run_pc # "raised"

\* C31, witness: one job failed to decode in the loop and another failed
\* inside process_task, and every worker loop is polling again
C31_Witness ==
    /\ ~shutdown_event
    /\ \E i, j \in JobIds :
           /\ wk_outcome[i] = "decode_error"
           /\ wk_outcome[j] \in {"json_error", "missing_stream_id", "ack_error",
                                 "provider_error", "error_reported",
                                 "report_error"}
    /\ \A w \in Workers : wk_pc[w] = "pop"

\* C32: a job that was pushed is either still on its queue or was handed to
\* exactly one worker loop, and only that worker loop ACKs the stream.
C32_OneTakerPerJob ==
    \A j \in JobIds :
        LET queued == \E q \in QueueNames :
                          \E i \in 1..Len(wk_queues[q]) : wk_queues[q][i] = j
        IN  /\ wk_kind[j] = "none" => (~queued /\ wk_takers[j] = {})
            /\ wk_kind[j] # "none"
                   => (IF queued THEN wk_takers[j] = {}
                       ELSE Cardinality(wk_takers[j]) = 1)
            /\ wk_acked[j] \subseteq wk_takers[j]

\* C32, witness: two jobs of the same queue are with two different worker
\* loops at once, each ACKed by its own
C32_Witness ==
    /\ wk_queues["scan_normal"] = << >> /\ wk_queues["scan_priority"] = << >>
    /\ \E v, w \in Workers :
           /\ v # w
           /\ wk_job[v] = 1 /\ wk_job[w] = 2
           /\ wk_acked[1] = {v} /\ wk_acked[2] = {w}
           /\ wk_pc[v] = "scan" /\ wk_pc[w] = "scan"

\* C34: once the shutdown event is set, every worker loop and the
\* coordination loop leave their "while" and run() returns.
C34_ShutdownEndsRun ==
    shutdown_event ~>
        (/\ run_pc = "returned"
         /\ coordination_pc = "exited"
         /\ \A w \in Workers : wk_pc[w] = "exited")

\* C34, witness: run() has returned after a shutdown that found a job in
\* flight, which was reported, and left another job on its queue
C34_Witness ==
    /\ run_pc = "returned" /\ shutdown_event
    /\ \A w \in Workers : wk_pc[w] = "exited"
    /\ wk_outcome[1] = "reported"
    /\ wk_queues["scan_normal"] = << 2 >>

(***************************************************************************)
(* ScanOrchestrator.get_result as a function of the session map and of     *)
(* the payload popped from result:{task_id}.                               *)
(***************************************************************************)
ResIdle ==
    /\ res_start_times = {}
    /\ res_task_id = 0
    /\ res_raw = "none"
    /\ res_status = "idle"

\* a call of get_result(task_id) is about to pop: any session map, any
\* payload
ResStart ==
    /\ res_start_times \in SUBSET Sessions
    /\ res_task_id \in Sessions
    /\ res_raw \in ResultPayloads
    /\ res_status = "waiting"

\* get_result returns: the entry of the task is popped from _start_times
\* on every path
GetResultCall ==
    /\ res_status = "waiting"
    /\ res_status' = get_result_status(res_task_id \in res_start_times, res_raw)
    /\ res_start_times' = res_start_times \ {res_task_id}
    /\ UNCHANGED << res_task_id, res_raw, pipeVars, coordVars, syncVars,
                    poolVars, sdsVars, wkVars >>

ResNext == GetResultCall

\* C33: the ScanResult get_result returns has status CLEAN, INFECTED or
\* ERROR whatever the payload, and ERROR when the pop timed out or raised
\* and when the payload cannot be decoded.
C33_ResultStatusIsTagged ==
    res_status \notin {"idle", "waiting"}
        => /\ res_status \in {"CLEAN", "INFECTED", "ERROR"}
           /\ res_raw \in {"none", "raises", "not_json", "not_object",
                            "not_hashable"} => res_status = "ERROR"

(***************************************************************************)
(* Specifications: one subsystem runs, the others stay idle.               *)
(***************************************************************************)
PipeIdle ==
    /\ PipeStart
    /\ tat = [p \in Prio |-> 0]
    /\ cache = {}
    /\ tenant_priority = FALSE

PipeInit == PipeStart /\ CoordIdle /\ SyncIdle /\ PoolIdle /\ SdsIdle /\ ResIdle /\ WkIdle

Spec == PipeInit /\ [][PipeNext]_vars

\* One request with its body on a fresh stream, scanned by the worker; the
\* event loop runs every producer task that can take a step, and the worker
\* goes on after the engine call has returned or raised.
ScanInit == PipeIdle /\ CoordIdle /\ SyncIdle /\ PoolIdle /\ SdsIdle /\ ResIdle /\ WkIdle

ScanNext ==
    \/ ProcessRequestHeaders
    \/ ProcessBody
    \/ ProxyDisconnect
    \/ \E s \in Sessions : HandshakeIssue(s)
    \/ \E s \in Sessions : HandshakeTimeout(s)
    \/ \E t \in pushTasks : push_chunk(t)
    \/ \E s \in Sessions : finalize_push(s)
    \/ \E s \in Sessions : FinalizeAwaitHandshake(s)
    \/ \E s \in Sessions, timedOut \in BOOLEAN, lands \in BOOLEAN :
           FinalizeGetResult(s, timedOut, lands)
    \/ WorkerPop
    \/ WorkerSendAckPush
    \/ WorkerSendAckSet
    \/ WorkerGetChunksBegin
    \/ WorkerConnectFails
    \/ WorkerBlmove
    \/ WorkerBlmoveTimeout
    \/ WorkerCheckDone
    \/ \E r \in EngineReplies : WorkerScanEnd(r)
    \/ \E unpacked \in BOOLEAN : WorkerReport(unpacked)
    \/ WorkerRecordTat

ScanFairness ==
    /\ \A s \in Sessions :
           /\ WF_vars(HandshakeIssue(s))
           /\ WF_vars(HandshakeTimeout(s))
           /\ WF_vars(finalize_push(s))
           /\ WF_vars(FinalizeAwaitHandshake(s))
           /\ WF_vars(\E timedOut \in BOOLEAN, lands \in BOOLEAN :
                          FinalizeGetResult(s, timedOut, lands))
    /\ WF_vars(\E unpacked \in BOOLEAN : WorkerReport(unpacked))

ScanLiveSpec == ScanInit /\ [][ScanNext]_vars /\ ScanFairness

\* The worker loop is a task of its own that runs whenever it can: a
\* blocking pop or move returns when it has an element or its timeout has
\* passed, and an engine that is up answers.  The proxy and the engine's
\* failures are under no such obligation.
FollowFairness ==
    /\ ScanFairness
    /\ WF_vars(\E t \in pushTasks : push_chunk(t))
    /\ WF_vars(WorkerPop)
    /\ WF_vars(WorkerSendAckPush)
    /\ WF_vars(WorkerSendAckSet)
    /\ WF_vars(WorkerGetChunksBegin)
    /\ WF_vars(WorkerBlmove)
    /\ WF_vars(WorkerBlmoveTimeout)
    /\ WF_vars(WorkerCheckDone)
    /\ WF_vars(\E r \in {"OK", "FOUND"} : WorkerScanEnd(r))
    /\ WF_vars(WorkerRecordTat)

FollowLiveSpec == ScanInit /\ [][ScanNext]_vars /\ FollowFairness

\* Requests that follow one another, each on its own stream, through one
\* handler and one worker
RepeatNext ==
    \/ ScanNext
    \/ NewStreamAfterInfected

RepeatSpec == ScanInit /\ [][RepeatNext]_vars

CoordInit == CoordStart /\ PipeIdle /\ SyncIdle /\ PoolIdle /\ SdsIdle /\ ResIdle /\ WkIdle

CoordSpec == CoordInit /\ [][CoordNext]_vars

\* one step of handle_sequential_update on pod n
UpdateStep(n) ==
    \/ ReadTarget(n)
    \/ AcquireLock(n)
    \/ CountNodes(n)
    \/ SurgeDelete(n)
    \/ SurgePush(n)
    \/ ReloadBegin(n)
    \/ \E outcome \in ReloadOutcomes : TriggerReloadReturns(n, outcome)
    \/ ReloadEnd(n)
    \/ ScaleDown(n)
    \/ ReleaseLock(n)

\* _trigger_reload blocks the event loop of its pod; a reload that takes
\* more than 60 s lets the pod's heartbeat key expire
HeartbeatExpireWhileReloading(n) ==
    /\ cpc[n] = "reloading"
    /\ HeartbeatExpire(n)

\* a coordinated reload of a live cluster: the operator raises the target
\* epoch, every pod keeps ticking, so that a heartbeat key expires only
\* while its pod is blocked in a reload, and no store or engine call raises
CoordLiveNext ==
    \/ set_target_epoch(-1)
    \/ \E n \in Nodes : heartbeat(n)
    \/ \E n \in Nodes : UpdateStep(n)
    \/ \E n \in Nodes : HeartbeatExpireWhileReloading(n)
    \/ LockExpire

\* coordination_loop runs forever on each pod: every pass calls heartbeat()
\* and then handle_sequential_update(), whose steps follow one another
CoordFairness ==
    \A n \in Nodes : SF_vars(heartbeat(n)) /\ WF_vars(UpdateStep(n))

CoordLiveSpec == CoordInit /\ [][CoordLiveNext]_vars /\ CoordFairness

SyncInit == SyncIdle /\ PipeIdle /\ CoordIdle /\ PoolIdle /\ SdsIdle /\ ResIdle /\ WkIdle

SyncSpec == SyncInit /\ [][SyncNext]_vars

PoolInit == PoolIdle /\ PipeIdle /\ CoordIdle /\ SyncIdle /\ SdsIdle /\ ResIdle /\ WkIdle

SdsInit == SdsIdle /\ PipeIdle /\ CoordIdle /\ SyncIdle /\ PoolIdle /\ ResIdle /\ WkIdle

SdsSpec == SdsInit /\ [][SdsNext]_vars

ResInit == ResStart /\ PipeIdle /\ CoordIdle /\ SyncIdle /\ PoolIdle /\ SdsIdle /\ WkIdle

ResSpec == ResInit /\ [][ResNext]_vars

WorkersInit == WkIdle /\ PipeIdle /\ CoordIdle /\ SyncIdle /\ PoolIdle /\ SdsIdle /\ ResIdle

WorkersSpec == WorkersInit /\ [][WorkersNext]_vars

WorkersLiveSpec == WorkersInit /\ [][WorkersNext]_vars /\ WorkersFairness

\* the normal-only loop polls again within 2 s whenever it is at its pop
PoolSpec ==
    /\ PoolInit
    /\ [][PoolNext]_vars
    /\ WF_vars(PoolPop(LowStaff))

(***************************************************************************)
(* Properties of the pipeline (specification Spec).                        *)
(***************************************************************************)
\* a job for session s is waiting on a scan queue
InQueue(s) ==
    \E q \in QueueNames : \E i \in 1..Len(queues[q]) : queues[q][i] = s

\* sessions with a record on result:{id}
ReportedSessions == { r.sid : r \in reported }

\* C1: for every session that reached end_of_stream, once get_chunks has
\* ended on the done sentinel the chunks it yielded are exactly the chunks
\* passed to push_chunk, in the same order.
C1_YieldedEqualsPushed ==
    \A s \in Sessions :
        (fin[s].pc # "none" /\ wjob = s /\ wpc = "reply")
            => yielded[s] = pushed[s]

\* C2: for every job the worker picked up, the push onto ack:{id} precedes
\* the first read of the session's Byte Pipe, every chunk yielded from it
\* and the push of the record onto result:{id}.
C2_AckBeforeReadAndResult ==
    \A s \in Sessions :
        (s \in readBegun \/ yielded[s] # << >> \/ s \in ReportedSessions)
            => s \in ackPushed

\* C2, witness: a job was acknowledged, a chunk of it was read and its
\* record was published
C2_Witness ==
    \E s \in Sessions :
        s \in ackPushed /\ s \in readBegun /\ yielded[s] # << >>
            /\ s \in ReportedSessions

C7_CacheConsultedOnlyForCacheableRequests ==
    /\ \A r \in cacheReads :
           r.request_phase /\ r.method \in {"GET", "HEAD", "OPTIONS"}
    /\ bypass_reason = "cache" => current_method \in {"GET", "HEAD", "OPTIONS"}

\* C7, witness: a GET whose path is cached was bypassed after a cache read
C7_Witness ==
    /\ bypass_reason = "cache"
    /\ [method |-> "GET", request_phase |-> TRUE] \in cacheReads
    /\ nBody > 0

\* C8: every ProcessingRequest received so far has exactly one
\* ProcessingResponse, and each response is a CONTINUE or a 403.
C8_OneContinueOr403PerRequest ==
    /\ Len(responses) = Len(requests)
    /\ \A i \in 1..Len(responses) : responses[i] \in {"CONTINUE", "403"}

\* C10: a session dispatched while the TAT key of its priority held more
\* than 300 s has no job on any queue, no chunk pushed and no result, and
\* the stream it belongs to got CONTINUE for the headers and every chunk.
C10_CongestionBypassSkipsScan ==
    \A s \in 1..minted :
        tatRead[s] > 300 * 1000 =>
            /\ s \notin enqueued /\ ~InQueue(s)
            /\ pushed[s] = << >> /\ data[s] = << >>
            /\ s \notin ReportedSessions /\ result[s] = << >>
            /\ task_id = s =>
                   /\ is_bypassed
                   /\ Len(responses) = Len(requests)
                   /\ \A i \in 1..Len(responses) :
                          requests[i] # "other" => responses[i] = "CONTINUE"

\* C20: within one session the chunks that have reached the Byte Pipe (those
\* the worker has already moved out of the data list, then the data list)
\* stand in the order the proxy delivered them.
C20_ChunksLandInDeliveryOrder ==
    \A s \in Sessions :
        LET landed == yielded[s] \o data[s]
        IN  \A i, j \in 1..Len(landed) : i < j => landed[i] < landed[j]

\* C12: every record published for a scan that the engine answered says
\* INFECTED when the engine reported an infection and CLEAN when it did not.
C12_RecordMatchesEngineReply ==
    \A r \in reported :
        /\ r.reply = "FOUND" => r.status = "INFECTED"
        /\ r.reply = "OK" => r.status = "CLEAN"

C13_EngineFailureSurfacesError ==
    /\ [](\A r \in reported : r.reply = "failed" => r.status = "ERROR")
    /\ [](\A s \in Sessions :
             (/\ fin[s].got # "none"
              /\ \E r \in reported : r.sid = s /\ r.reply = "failed")
                 => fin[s].got = "ERROR")
    /\ \A s \in Sessions :
           (wjob = s /\ wpc = "report" /\ reply = "failed")
               ~> (/\ wjob # s
                   /\ \E r \in reported : r.sid = s /\ r.status = "ERROR")
    /\ \A s \in Sessions :
           (fin[s].pc \in {"finalize_push", "await_handshake", "get_result"})
               ~> (fin[s].pc \in {"returned", "bypassed", "cancelled"})

\* C13, witness: the engine socket failed, the worker published ERROR and
\* went back to its pop, and get_result popped that record and returned
\* ERROR
C13_Witness ==
    \E s \in Sessions :
        /\ [sid |-> s, reply |-> "failed", status |-> "ERROR"] \in reported
        /\ fin[s].pc = "returned" /\ fin[s].got = "ERROR"
        /\ result[s] = << >>
        /\ wpc = "pop"

\* C21: while the done sentinel of a session is in the store, no push_chunk
\* task of that session is still waiting to be applied.
C21_DoneOnlyAfterEveryPush ==
    \A s \in Sessions :
        done[s] => ~\E t \in pushTasks : t.sid = s

\* C24: a step that handles a response_headers message on a stream that is
\* not bypassed answers CONTINUE and leaves the session state alone: no
\* session is prepared, no job enqueued, and task_id (with its provider) and
\* handshake_task keep their values.
C24_ResponseHeadersChangeNothing ==
    [][(/\ Len(requests') = Len(requests) + 1
        /\ requests'[Len(requests')] = "response_headers"
        /\ ~is_bypassed)
          => /\ responses' = Append(responses, "CONTINUE")
             /\ minted' = minted
             /\ start_times' = start_times
             /\ queues' = queues
             /\ task_id' = task_id
             /\ handshake_task' = handshake_task]_vars

\* C25: on a stream whose request method is cacheable and whose path had a
\* clean-URL cache entry when the request headers arrived, the headers were
\* answered with CONTINUE and the stream is bypassed: no session has been
\* prepared, no job enqueued and no chunk pushed, whatever came after the
\* headers.
C25_CacheHitBypassesStream ==
    (/\ requests # << >>
     /\ Cacheable(current_method)
     /\ current_path \in cache
     /\ cacheWrites = {})
        => /\ responses # << >> /\ responses[1] = "CONTINUE"
           /\ is_bypassed /\ bypass_reason = "cache"
           /\ minted = 0 /\ task_id = 0 /\ start_times = {}
           /\ enqueued = {} /\ \A q \in QueueNames : queues[q] = << >>
           /\ pushTasks = {}
           /\ \A s \in Sessions : pushed[s] = << >> /\ data[s] = << >>

\* C25, witness: a GET for a cached path was bypassed, and all its body
\* chunks and its response headers have been handled since
C25_Witness ==
    /\ bypass_reason = "cache"
    /\ current_method = "GET" /\ current_path \in cache
    /\ nBody = MaxBody
    /\ stage = "resp"

\* C26: a handshake whose blocking pop has returned, for a session whose ACK
\* the worker had pushed by then, returned true.
C26_AckSentMeansAccepted ==
    \A s \in Sessions :
        (s \in ackPushed /\ hs[s] \in {"accepted", "failed"})
            => hs[s] = "accepted"

\* C27: the step on which the follower loop of get_chunks ends (done was
\* read as set after a blocking move that timed out) finds the data list
\* of the stream empty.
C27_LoopExitsOnEmptyDataList ==
    [][(wpc = "check_done" /\ wpc' = "reply") => data[wjob] = << >>]_vars

\* C29: a scan that has ended (the worker is about to publish its outcome)
\* has called provider.finalize exactly once for the stream it scanned.
C29_ScanFinalizesExactlyOnce ==
    wpc = "report" => finalize_calls[wjob] = 1

\* C30: a step that calls provider.finalize for a stream leaves its done key
\* absent; when the scan succeeded and found no virus the verified list is
\* kept as it was and, if it exists, carries the TTL of VerifiedTtlS
\* seconds; in every other case the verified list is deleted.
C30_FinalizeLeavesStoreAsSpecified ==
    [][\A s \in Sessions :
          finalize_calls'[s] # finalize_calls[s]
              => /\ ~done'[s]
                 /\ IF reply' = "OK"
                    THEN /\ verified'[s] = verified[s]
                         /\ verified[s] # << >>
                                => verified_ttl'[s] = VerifiedTtlS
                    ELSE /\ verified'[s] = << >>
                         /\ verified_ttl'[s] = 0]_vars

\* C30, witness: a clean scan has been finalized, its verified list holds
\* the chunks read and has the TTL, and the done key is gone
C30_Witness ==
    /\ wpc = "report" /\ reply = "OK"
    /\ finalize_calls[wjob] = 1
    /\ Len(verified[wjob]) = MaxBody
    /\ verified_ttl[wjob] = VerifiedTtlS
    /\ ~done[wjob]

\* C23: once the proxy has ended the stream and none of its finalization tasks is
\* still running, the orchestrator's session map holds no entry.
C23_NoEntryAfterStreamEnded ==
    (/\ stage = "closed"
     /\ \A s \in Sessions :
            fin[s].pc \in {"none", "returned", "bypassed", "cancelled"})
        => start_times = {}

\* C22: once a finalization task has received INFECTED for a path, request
\* headers that arrive for that path are not answered with CONTINUE.
C22_InfectedPathBlockedLater ==
    [][\A s \in Sessions :
          (/\ fin[s].got = "INFECTED"
           /\ Len(requests') = 1 /\ requests = << >>
           /\ requests'[1] = "request_headers"
           /\ current_path' = fin[s].path)
              => ~(responses' # << >> /\ responses'[1] = "CONTINUE")]_vars

\* C38: once the TAT key of a priority holds more than the threshold and no
\* job of that priority is queued or with the worker, a step that dispatches
\* a request of that priority (and does not fail on the store) takes the
\* congestion bypass, and no step changes the key.
C38_CongestionLatches ==
    [][\A p \in Prio :
          (/\ CongestionBypass(tat[p])
           /\ queues[QueueFor(p = "high")] = << >>
           /\ ~(wpc # "pop" /\ PriorityOf(wqueue) = p))
              => /\ tat'[p] = tat[p]
                 /\ (/\ minted' = minted + 1 /\ stage' # "failed"
                     /\ tenant_priority = (p = "high"))
                        => (is_bypassed' /\ bypass_reason' = "congestion")]_vars

\* C40: a worker that has completed a scan records the total TAT under the
\* priority of the queue it popped the job from, and a dispatch is bypassed
\* for congestion exactly when the key of its own priority holds more than
\* the threshold, whatever the key of the other priority holds.
C40_RecordedTatIsTheValueRead ==
    [][/\ (wpc = "report" /\ scan_success /\ wpc' # "report")
              => wpc' = "record_tat"
       /\ (wpc = "record_tat" /\ wpc' # "record_tat")
              => \A p \in Prio : p # PriorityOf(wqueue) => tat'[p] = tat[p]
       /\ (minted' = minted + 1 /\ stage' # "failed")
              => ((is_bypassed' /\ bypass_reason' = "congestion")
                     <=> CongestionBypass(tat[IF tenant_priority THEN "high"
                                              ELSE "normal"]))]_vars

\* C39: from the start of get_chunks until finalize, the verified list
\* followed by the data list of the stream is changed by no step but an
\* RPUSH of push_chunk, which appends its chunk to it, so that it is the
\* sequence of the chunks pushed so far; and the chunks yielded to the engine
\* are the verified list.
C39_VerifiedThenDataIsWhatWasPushed ==
    [][\A s \in Sessions :
          (s \in readBegun /\ finalize_calls'[s] = 0)
              => /\ \/ verified'[s] \o data'[s] = verified[s] \o data[s]
                    \/ \E p \in pushTasks :
                          /\ p.sid = s
                          /\ pushTasks' = pushTasks \ {p}
                          /\ verified'[s] \o data'[s]
                                 = Append(verified[s] \o data[s], p.chunk)
                 /\ yielded'[s] = verified'[s]]_vars

\* C39, witness: the worker is in the follower loop, has moved and yielded
\* one chunk, and the next chunk waits in the data list
C39_Witness ==
    /\ wpc = "blmove" /\ wjob \in readBegun
    /\ finalize_calls[wjob] = 0
    /\ Len(verified[wjob]) = 1 /\ yielded[wjob] = verified[wjob]
    /\ Len(data[wjob]) = 1

\* C35: a worker that holds a job when the proxy has ended the stream is
\* sooner or later back at the blocking pop on its queues.
C35_EveryScanEnds ==
    (wpc # "pop" /\ stage = "closed") ~> (wpc = "pop")

====
